---- MODULE Spec2Model ----
(***************************************************************************)
(* Zombieslicer (src/src/main.js): the slice engine of the game as a state *)
(* machine.  One action per event handler or callback of the page:         *)
(* texture-load callbacks, spawn timer, mouse handlers, webcam button,     *)
(* hand-frame callback and the render tick.                                *)
(*                                                                         *)
(* Units.  Time is in milliseconds (performance.now()/1000 and             *)
(* clock.getDelta() are seconds in the source).  World coordinates and     *)
(* velocities are in 1/1000000 of a world unit, scales in 1/1000, UV       *)
(* coordinates in 1/UVOne of the texture, NDC coordinates in 1/NDCOne of   *)
(* the half screen, unit directions in 1/DirOne.                           *)
(***************************************************************************)
EXTENDS Integers, Sequences, FiniteSets, TLC

(* ---------------------------------------------------------------- bounds *)
MaxZombies == 2
MaxNow == 500
MaxCamRequests == 1
MaxPredictLoops == 1
MaxTimers == 8
GestureMaxZombies == 2
GestureMaxNow == 250
PoolMaxZombies == 3
PoolMaxNow == 750
LongMaxZombies == 1
LongMaxNow == 32000
LifeMaxZombies == 1
LifeDeltaTime == 30
LifeSliceBy == 300
LifeMaxNow == 13000
FallMaxZombies == 1
FallSliceBy == 500
FallMaxNow == 45000
SiegeMaxZombies == 4
SiegeDeltaTime == 3500
SiegeMaxNow == 35000
BloodMaxZombies == 1
BloodDeltaTime == 60
BloodSliceBy == 300
BloodLateFrom == 2400
BloodLateBy == 2500
BloodMaxNow == 14400
WalkMaxZombies == 2
WalkDeltaTime == 3500
WalkSpawnBy == 7000
WalkMaxNow == 17500
SpawnerMaxZombies == 3
ReuseMaxZombies == 2
ReuseDeltaTime == 60
ReuseSliceBy == 300
ReuseFastUntil == 2400
ReuseSlowDeltaTime == 2500
ReuseLateFrom == 12400
ReuseMaxNow == 17400
SpawnerDeltaTime == 3500
SpawnerMaxNow == 7000

(* ------------------------------------------------------ program constants *)
MAX_BLOOD_PARTICLES == 50
ZOMBIE_FRAME_COUNT == 16
BloodTextureFileCount == 7
numBloodParticles == 18
ZOMBIE_KILL_COOLDOWN == 200
FLOOR_Y == 0 - 2500000
ZOMBIE_START_Z == 0 - 20000000
ZOMBIE_END_Z == 3000000
ZOMBIE_WALK_SPEED == 2200
DAMPING == 95
DESPAWN_TIME == 10000
WALL_DESPAWN_TIME == 4500
PERSPECTIVE_FLOOR_FACTOR == 15
CameraZ == 5000000
PlaneHeight == 5000000
PlaneWidth == 5000000
ScorePerSlice == 50
UVOne == 100000
MinSliceUVDistance == 100
MouseDragThreshold == 2
SLICE_GESTURE_THRESHOLD == 3
CameraAspect == 2

(* null for an object reference, and for a missing point or line *)
Null == 0
NoUV == << >>

(* ------------------------------------------------------------ arithmetic *)
Abs(n) == IF n < 0 THEN 0 - n ELSE n

Max(a, b) == IF a > b THEN a ELSE b

Min(a, b) == IF a < b THEN a ELSE b

(* Division of a possibly negative number, rounded toward zero. *)
Div(a, b) == IF a >= 0 THEN a \div b ELSE 0 - ((0 - a) \div b)

RECURSIVE ISqrtBetween(_, _, _)
ISqrtBetween(n, lo, hi) ==
    IF hi - lo <= 1 THEN lo
    ELSE LET mid == (lo + hi) \div 2
         IN  IF mid * mid <= n THEN ISqrtBetween(n, mid, hi)
             ELSE ISqrtBetween(n, lo, mid)

(* floor(sqrt(n)) for 0 <= n < 46340^2 *)
ISqrt(n) == ISqrtBetween(n, 0, 46340)

(* ------------------------------------------------- screen and hit testing *)
(* NDC points are <<x, y>> in 1/NDCOne of the half screen.  A zombie is     *)
(* drawn in the screen column of its lane; the raycaster (three.js) is      *)
(* modelled by that column: a point inside it strikes the zombie at the UV  *)
(* that is linear in the point's offset inside the column.                  *)
NDCOne == 10000
LaneWidth == 4000
LaneBottom == 0 - 5000
LaneHeight == 10000
Lanes == {1, 2}
SpawnLanes == {1}

LaneLeft(lane) == IF lane = 1 THEN 0 - 6000 ELSE 2000

InLane(p, lane) ==
    /\ p[1] >= LaneLeft(lane) /\ p[1] <= LaneLeft(lane) + LaneWidth
    /\ p[2] >= LaneBottom /\ p[2] <= LaneBottom + LaneHeight

LaneUV(p, lane) ==
    << ((p[1] - LaneLeft(lane)) * UVOne) \div LaneWidth,
       ((p[2] - LaneBottom) * UVOne) \div LaneHeight >>

(* squared NDC distance, Vector2.distanceTo without the root *)
DistSq(p, q) == (p[1] - q[1]) * (p[1] - q[1]) + (p[2] - q[2]) * (p[2] - q[2])

(* a.distanceTo(b) > thr, thr in 1/100 NDC (0.02 -> 2, 0.03 -> 3) *)
NDCFartherThan(p, q, thr) ==
    DistSq(p, q) > (thr * (NDCOne \div 100)) * (thr * (NDCOne \div 100))

(* --------------------------------------------------------- direction math *)
DirOne == 1000

(* Vector2.normalize(): v / (length || 1), in 1/DirOne fixed point. *)
Normalize(v) ==
    LET len == ISqrt(v[1] * v[1] + v[2] * v[2])
        l == IF len = 0 THEN 1 ELSE len
    IN  << Div(v[1] * DirOne, l), Div(v[2] * DirOne, l) >>

LengthSq(v) == v[1] * v[1] + v[2] * v[2]

(* directionNDC, then directionUVApprox = (x, y * aspect).normalize();      *)
(* the NDC difference is first reduced to 1/100 so that squares stay small. *)
DirectionNDC(startNDC, endNDC) ==
    Normalize(<< Div(endNDC[1] - startNDC[1], NDCOne \div 100),
                 Div(endNDC[2] - startNDC[2], NDCOne \div 100) >>)

DirectionUVApprox(dirNDC) == Normalize(<< dirNDC[1], dirNDC[2] * CameraAspect >>)

(* ------------------------------------------------------ intersectUVSquare *)
(* A ray parameter t is a fraction n/c (c > 0) of UV units per direction    *)
(* unit, or an infinity: inf = -1 for -Infinity, 1 for Infinity.            *)
TNegInf == [inf |-> 0 - 1, n |-> 0, c |-> 1]
TPosInf == [inf |-> 1, n |-> 0, c |-> 1]
TFrac(n, c) == IF c < 0 THEN [inf |-> 0, n |-> 0 - n, c |-> 0 - c]
               ELSE [inf |-> 0, n |-> n, c |-> c]

TLess(a, b) ==
    IF a.inf # 0 \/ b.inf # 0 THEN a.inf < b.inf
    ELSE a.n * b.c < b.n * a.c

TMax(a, b) == IF TLess(a, b) THEN b ELSE a
TMin(a, b) == IF TLess(b, a) THEN b ELSE a

EpsInv == 1000000

(* A direction is held in 1/one fixed point: DirOne for the normalised      *)
(* directions of the resolvers, FineOne where components below 1e-6 matter. *)
FineOne == 10000000

(* t < 0 *)
TIsNegative(t, one) == IF t.inf # 0 THEN t.inf < 0 ELSE t.n < 0

(* t < 1e-6 for a finite or infinite t = (n / UVOne) / (c / one) *)
TBelowEps(t, one) ==
    IF t.inf # 0 THEN t.inf < 0
    ELSE t.n <= (t.c - 1) \div (one * (EpsInv \div UVOne))

(* 1e6 as a ratio n / c of the fraction *)
HugeRatio(one) ==
    IF one <= EpsInv THEN (EpsInv \div one) * UVOne
    ELSE UVOne \div (one \div EpsInv)

(* t > 1e6 *)
TAboveHuge(t, one) ==
    IF t.inf # 0 THEN t.inf > 0
    ELSE t.n > 0 /\ (t.n - 1) \div HugeRatio(one) >= t.c

(* a component below 1e-5 *)
ComponentIsSmall(c, one) == Abs(c) * (EpsInv \div 10) < one

(* Math.abs(direction component) < 1e-6 *)
ComponentIsZero(c, one) == Abs(c) * EpsInv < one

(* the clipping of one axis: <<ok, tMin, tMax>> *)
ClipAxis(s, d, tMin, tMax, one) ==
    IF ComponentIsZero(d, one)
    THEN << ~(s < 0 \/ s > UVOne), tMin, tMax >>
    ELSE LET a == TFrac(0 - s, d)
             b == TFrac(UVOne - s, d)
             t1 == IF TLess(b, a) THEN b ELSE a
             t2 == IF TLess(b, a) THEN a ELSE b
         IN  << TRUE, TMax(tMin, t1), TMin(tMax, t2) >>

(* tIntersection, or TNegInf where the function returns null *)
ExitParameter(startPoint, direction, one) ==
    LET cx == ClipAxis(startPoint[1], direction[1], TNegInf, TPosInf, one)
    IN  IF ~cx[1] THEN TNegInf
        ELSE
        LET cy == ClipAxis(startPoint[2], direction[2], cx[2], cx[3], one)
        IN  IF ~cy[1] THEN TNegInf
            ELSE
            LET tMin == cy[2]
                tMax == cy[3]
            IN  IF TLess(tMax, tMin) \/ TBelowEps(tMax, one) THEN TNegInf
                ELSE
                LET t == IF ~TBelowEps(tMin, one) THEN tMin ELSE tMax
                IN  IF TBelowEps(t, one) \/ TAboveHuge(t, one) THEN TNegInf
                    ELSE t

(* Returns NoUV (null) or the point where the ray leaves the unit square. *)
IntersectUVSquareIn(startPoint, direction, one) ==
    LET t == ExitParameter(startPoint, direction, one)
    IN  IF t = TNegInf THEN NoUV
        ELSE << startPoint[1] + Div(direction[1] * t.n, t.c),
                startPoint[2] + Div(direction[2] * t.n, t.c) >>

(* the point where the ray entered the square, behind the start point *)
EntryPoint(startPoint, direction) ==
    IntersectUVSquareIn(startPoint, << 0 - direction[1], 0 - direction[2] >>, DirOne)

intersectUVSquare(startPoint, direction) ==
    IntersectUVSquareIn(startPoint, direction, DirOne)

(* ---------------------------------------------------------- the resolvers *)
(* two points that are the same point *)
UVCoincide(a, b) == a = b

(* a.distanceTo(b) < least in UV space *)
UVCloserThan(a, b, least) ==
    /\ Abs(a[1] - b[1]) < least
    /\ Abs(a[2] - b[2]) < least
    /\ (a[1] - b[1]) * (a[1] - b[1]) + (a[2] - b[2]) * (a[2] - b[2]) < least * least

(* a.distanceTo(b) < 0.001 *)
UVCloserThanMin(a, b) == UVCloserThan(a, b, MinSliceUVDistance)

(* --------------------------------------------------- the fragment shader *)
ShaderMinDistance == 10

(* normalize(vec2(-lineVec.y, lineVec.x)); like sliceVector the line vector *)
(* is first reduced to 1/10 so that squares stay small.                     *)
ShaderNormal(uSliceStart, uSliceEnd) ==
    Normalize(<< Div(0 - (uSliceEnd[2] - uSliceStart[2]), 10),
                 Div(uSliceEnd[1] - uSliceStart[1], 10) >>)

(* side = dot(vUv - uSliceStart, normal) *)
ShaderSide(uSliceStart, uSliceEnd, vUv) ==
    LET normal == ShaderNormal(uSliceStart, uSliceEnd)
    IN  (vUv[1] - uSliceStart[1]) * normal[1] + (vUv[2] - uSliceStart[2]) * normal[2]

(* a fragment dropped whatever piece it belongs to *)
DiscardsBelow(side, uSideToKeep) == side < 0

(* if (side * uSideToKeep < 0.0) discard *)
Discards(side, uSideToKeep) == side * uSideToKeep < 0

(* slicing logic that tests the side of the line whatever the uniforms are *)
KeptBySideAlone(uSliceStart, uSliceEnd, uSideToKeep, vUv) ==
    ~Discards(ShaderSide(uSliceStart, uSliceEnd, vUv), uSideToKeep)

(* The slicing logic of main(): TRUE when the fragment at vUv is not        *)
(* discarded by it; the texture's own transparency is a later test.         *)
FragmentKept(uSliceStart, uSliceEnd, uSideToKeep, vUv) ==
    IF uSideToKeep = 0 THEN TRUE
    ELSE IF UVCloserThan(uSliceStart, uSliceEnd, ShaderMinDistance)
    THEN ~(uSideToKeep > 0)
    ELSE ~Discards(ShaderSide(uSliceStart, uSliceEnd, vUv), uSideToKeep)

ClampUV(p) == << Max(0, Min(UVOne, p[1])), Max(0, Min(UVOne, p[2])) >>

(* Second half of both resolvers: distance check and clamp.  NoUV = reject. *)
FinishLine(finalStartUV, finalEndUV) ==
    IF UVCloserThanMin(finalStartUV, finalEndUV) THEN NoUV
    ELSE << ClampUV(finalStartUV), ClampUV(finalEndUV) >>

(* calculateAndPerformSlice up to the call of performSlice: the cut line    *)
(* <<startUV, endUV>> handed to performSlice, or NoUV when it returns early. *)
ResolveMouse(targetZombie, startValid, endValid, startUV, endUV, startNDC, endNDC) ==
    IF targetZombie = Null THEN NoUV
    ELSE
    LET directionUVApprox == DirectionUVApprox(DirectionNDC(startNDC, endNDC))
    IN  IF startValid /\ endValid THEN FinishLine(startUV, endUV)
        ELSE IF startValid /\ ~endValid
        THEN LET extendedEnd == intersectUVSquare(startUV, directionUVApprox)
             IN  IF extendedEnd = NoUV THEN NoUV
                 ELSE FinishLine(startUV, extendedEnd)
        ELSE NoUV

(* a resolver that extends every line to the border, end hit or not *)
ResolveExtending(targetZombie, startUV, startNDC, endNDC, endUVIfValid) ==
    ResolveMouse(targetZombie, TRUE, FALSE, startUV, NoUV, startNDC, endNDC)

(* a hand resolver without the two tests of the direction's length *)
ResolveHandUnchecked(targetZombie, startUV, startNDC, endNDC, endUVIfValid) ==
    ResolveMouse(targetZombie, TRUE, endUVIfValid # NoUV, startUV, endUVIfValid,
                 startNDC, endNDC)

(* calculateAndPerformSliceHand up to the call of performSlice; the isSliced *)
(* test of its first line is applied by the caller, which holds the zombie.  *)
ResolveHand(targetZombie, startUV, startNDC, endNDC, endUVIfValid) ==
    IF targetZombie = Null THEN NoUV
    ELSE
    LET directionNDC == DirectionNDC(startNDC, endNDC)
        directionUVApprox == DirectionUVApprox(directionNDC)
    IN  IF LengthSq(directionNDC) = 0 THEN NoUV
        ELSE IF LengthSq(directionUVApprox) = 0 THEN NoUV
        ELSE IF endUVIfValid # NoUV THEN FinishLine(startUV, endUVIfValid)
        ELSE LET extendedEnd == intersectUVSquare(startUV, directionUVApprox)
             IN  IF extendedEnd = NoUV THEN NoUV
                 ELSE FinishLine(startUV, extendedEnd)

(* ------------------------------------------------------------------ state *)
VARIABLES
    now,                      \* performance.now(), ms since page load
    loadedBloodCount,         \* [loader -> textures loaded]; 1 module level, 2 loadAssets
    bloodTexturesLoaded,
    bloodParticlePool,
    loadedZombieFrameCount,   \* [loader -> frames loaded]
    allZombieFramesLoaded,
    zombieGeometry,           \* Null or the id of the current PlaneGeometry
    disposedGeometries,       \* ids of geometries on which dispose() was called
    handLandmarker,           \* TRUE once createHandLandmarker has built it
    spawnIntervalId,
    timers,                   \* ids of the interval timers that are pending
    nextTimerId,
    zombies,                  \* every zombie mesh ever created, by id
    activeZombies,
    slicedPieces,
    score,
    lives,
    gameOver,
    lastZombieKillTime,
    sliceStartNDC,
    sliceStartUV,
    sliceStartValid,
    sliceEndValid,
    zombieToSlice,
    isSlicing,
    webcamRunning,
    previousFingerTipNDC,
    camRequests,              \* getUserMedia promises not yet settled
    srcObject,                \* videoElement.srcObject is a stream
    predictLoops,             \* scheduled invocations of predictWebcam
    executedSlices,           \* history: slices that ran to the end of performSlice
    piecesCreated,            \* history: [zombie id -> pieces created from it]
    prevKillTime,             \* history: lastZombieKillTime before the last slice
    rejectedAt,               \* history: time of the last request the cooldown rejected
    probe                     \* the arguments and result of a function applied on its own

assetVars == << loadedBloodCount, bloodTexturesLoaded, loadedZombieFrameCount,
                allZombieFramesLoaded, zombieGeometry, handLandmarker >>
spawnerVars == << spawnIntervalId, timers, nextTimerId >>
coreVars == << activeZombies, slicedPieces, score, lastZombieKillTime,
               bloodParticlePool >>
historyVars == << executedSlices, piecesCreated, prevKillTime, rejectedAt >>
mouseVars == << sliceStartNDC, sliceStartUV, sliceStartValid, sliceEndValid,
                zombieToSlice, isSlicing >>
camVars == << webcamRunning, camRequests, srcObject, predictLoops >>

gameVars == << now, assetVars, spawnerVars, zombies, coreVars, disposedGeometries,
               lives, gameOver, historyVars, mouseVars, camVars, previousFingerTipNDC >>

vars == << gameVars, probe >>

Loaders == {1, 2}
NoNDC == << >>
NoTime == 0 - 1
NoProbe == [applied |-> FALSE]

(* the state after the module's top-level code has run *)
GameInit ==
    /\ now = 0
    /\ loadedBloodCount = [l \in Loaders |-> 0]
    /\ bloodTexturesLoaded = FALSE
    /\ bloodParticlePool = << >>
    /\ loadedZombieFrameCount = [l \in Loaders |-> 0]
    /\ allZombieFramesLoaded = FALSE
    /\ zombieGeometry = Null
    /\ disposedGeometries = {}
    /\ handLandmarker = FALSE
    /\ spawnIntervalId = Null
    /\ timers = {}
    /\ nextTimerId = 1
    /\ zombies = << >>
    /\ activeZombies = << >>
    /\ slicedPieces = << >>
    /\ score = 0
    /\ lives = 3
    /\ gameOver = FALSE
    /\ lastZombieKillTime = 0
    /\ sliceStartNDC = << 0, 0 >>
    /\ sliceStartUV = << 0, 0 >>
    /\ sliceStartValid = FALSE
    /\ sliceEndValid = FALSE
    /\ zombieToSlice = Null
    /\ isSlicing = FALSE
    /\ webcamRunning = FALSE
    /\ previousFingerTipNDC = NoNDC
    /\ camRequests = 0
    /\ srcObject = FALSE
    /\ predictLoops = 0
    /\ executedSlices = 0
    /\ piecesCreated = << >>
    /\ prevKillTime = NoTime
    /\ rejectedAt = NoTime

Init == GameInit /\ probe = NoProbe

(* ------------------------------------------------------------ the spawner *)
(* The spawner's state is threaded through its three functions as a record  *)
(* sp = [zombies, activeZombies, spawnIntervalId, timers, nextTimerId].     *)
SpawnerState ==
    [zombies |-> zombies, activeZombies |-> activeZombies,
     spawnIntervalId |-> spawnIntervalId, timers |-> timers,
     nextTimerId |-> nextTimerId]

BaseScales == {1000}

NewZombie(lane, baseScale, geometry) ==
    [z |-> ZOMBIE_START_Z, lane |-> lane, baseScale |-> baseScale,
     geometry |-> geometry, isSliced |-> FALSE, materialDisposed |-> 0]

spawnZombie(sp, isOver, ready, geometry, lane, baseScale) ==
    IF isOver THEN sp
    ELSE IF ~ready \/ geometry = Null THEN sp
    ELSE LET id == Len(sp.zombies) + 1
             added == [sp EXCEPT !.zombies = Append(@, NewZombie(lane, baseScale, geometry)),
                                 !.activeZombies = Append(@, id)]
         IN  IF sp.spawnIntervalId # Null
             THEN [added EXCEPT !.timers = (@ \ {sp.spawnIntervalId}) \cup {sp.nextTimerId},
                                !.spawnIntervalId = sp.nextTimerId,
                                !.nextTimerId = @ + 1]
             ELSE added

startZombieSpawner(sp, isOver, ready, geometry, lane, baseScale) ==
    LET cleared == IF sp.spawnIntervalId # Null
                   THEN [sp EXCEPT !.timers = @ \ {sp.spawnIntervalId}]
                   ELSE sp
        spawned == spawnZombie(cleared, isOver, ready, geometry, lane, baseScale)
    IN  [spawned EXCEPT !.timers = @ \cup {spawned.nextTimerId},
                        !.spawnIntervalId = spawned.nextTimerId,
                        !.nextTimerId = @ + 1]

stopZombieSpawner(sp) ==
    IF sp.spawnIntervalId # Null
    THEN [sp EXCEPT !.timers = @ \ {sp.spawnIntervalId}, !.spawnIntervalId = Null]
    ELSE [sp EXCEPT !.spawnIntervalId = Null]

SetSpawner(sp) ==
    /\ zombies' = sp.zombies
    /\ activeZombies' = sp.activeZombies
    /\ spawnIntervalId' = sp.spawnIntervalId
    /\ timers' = sp.timers
    /\ nextTimerId' = sp.nextTimerId
    /\ piecesCreated' = [i \in 1..Len(sp.zombies) |->
                            IF i <= Len(piecesCreated) THEN piecesCreated[i] ELSE 0]

(* ---------------------------------------------------------- asset loading *)
NewParticle ==
    [visible |-> FALSE, lifetime |-> 0, velocity |-> << 0, 0, 0 >>,
     position |-> << 0, 0, 0 >>, rotationSpeed |-> 0, isOnFloor |-> FALSE,
     despawnTimer |-> 0, isWallBlood |-> FALSE, stuckToWall |-> FALSE]

(* the success callback of one blood texture, of either loader *)
BloodTextureLoaded(loader) ==
    /\ loader = 2 => handLandmarker
    /\ loadedBloodCount[loader] < BloodTextureFileCount
    /\ loadedBloodCount' = [loadedBloodCount EXCEPT ![loader] = @ + 1]
    /\ IF loadedBloodCount[loader] + 1 = BloodTextureFileCount
       THEN /\ bloodTexturesLoaded' = TRUE
            /\ bloodParticlePool' =
                 bloodParticlePool \o [i \in 1..MAX_BLOOD_PARTICLES |-> NewParticle]
       ELSE UNCHANGED << bloodTexturesLoaded, bloodParticlePool >>
    /\ UNCHANGED << now, loadedZombieFrameCount, allZombieFramesLoaded, zombieGeometry,
                    handLandmarker, spawnerVars, zombies, activeZombies, slicedPieces,
                    score, lastZombieKillTime, disposedGeometries, lives, gameOver,
                    historyVars, mouseVars, camVars, previousFingerTipNDC >>

(* the success callback of one zombie frame; frames arrive in index order,  *)
(* so the callback of index 0 is the first of its loader                    *)
ZombieFrameLoaded(loader, lane, baseScale) ==
    /\ loader = 2 => handLandmarker
    /\ loadedZombieFrameCount[loader] < ZOMBIE_FRAME_COUNT
    /\ loadedZombieFrameCount' = [loadedZombieFrameCount EXCEPT ![loader] = @ + 1]
    /\ zombieGeometry' = IF loadedZombieFrameCount[loader] = 0 THEN loader
                         ELSE zombieGeometry
    /\ IF loadedZombieFrameCount[loader] + 1 = ZOMBIE_FRAME_COUNT
       THEN /\ allZombieFramesLoaded' = TRUE
            /\ IF loader = 1
               THEN SetSpawner(startZombieSpawner(SpawnerState, gameOver, TRUE,
                                                  zombieGeometry', lane, baseScale))
               ELSE UNCHANGED << spawnerVars, zombies, activeZombies, piecesCreated >>
       ELSE UNCHANGED << allZombieFramesLoaded, spawnerVars, zombies, activeZombies,
                         piecesCreated >>
    /\ UNCHANGED << now, loadedBloodCount, bloodTexturesLoaded, bloodParticlePool,
                    handLandmarker, slicedPieces, score, lastZombieKillTime,
                    disposedGeometries, lives, gameOver, executedSlices, prevKillTime,
                    rejectedAt, mouseVars, camVars, previousFingerTipNDC >>

(* createHandLandmarker resolves: the landmarker exists and loadAssets() has *)
(* requested the frames and blood textures a second time                     *)
HandLandmarkerCreated ==
    /\ ~handLandmarker
    /\ handLandmarker' = TRUE
    /\ UNCHANGED << now, loadedBloodCount, bloodTexturesLoaded, bloodParticlePool,
                    loadedZombieFrameCount, allZombieFramesLoaded, zombieGeometry,
                    spawnerVars, zombies, activeZombies, slicedPieces, score,
                    lastZombieKillTime, disposedGeometries, lives, gameOver,
                    historyVars, mouseVars, camVars, previousFingerTipNDC >>

(* the interval timer fires spawnZombie *)
SpawnTimerFires(id, lane, baseScale) ==
    /\ id \in timers
    /\ SetSpawner(spawnZombie(SpawnerState, gameOver, allZombieFramesLoaded,
                              zombieGeometry, lane, baseScale))
    /\ UNCHANGED << now, assetVars, bloodParticlePool, slicedPieces, score,
                    lastZombieKillTime, disposedGeometries, lives, gameOver,
                    executedSlices, prevKillTime, rejectedAt, mouseVars, camVars,
                    previousFingerTipNDC >>

(* ------------------------------------------------------ zombie transform *)
(* scaleFactor = max(0.1, camera.z / (camera.z - z)), times baseScale *)
ZombieScale(zr) ==
    LET den == (CameraZ - zr.z) \div 1000
        scaleFactor == IF den <= 0 THEN 100 ELSE Max(100, CameraZ \div den)
    IN  (zr.baseScale * scaleFactor) \div 1000

calculateFloorY(z) == FLOOR_Y + Div((CameraZ - z) * PERSPECTIVE_FLOOR_FACTOR, 1000)

LaneX(lane) == IF lane = 1 THEN 0 - 1000000 ELSE 1000000

(* position of a zombie mesh: x of its lane, y with the feet on the floor *)
ZombiePosition(zr) ==
    << LaneX(zr.lane),
       calculateFloorY(zr.z) + ((PlaneHeight \div 1000) * ZombieScale(zr)) \div 2,
       zr.z >>

(* ------------------------------------------------------------ hit testing *)
(* getUVCoords / getUVCoordsFromNDC: the nearest unsliced active zombie the *)
(* ray through the NDC point strikes, as [object, uv]; object = Null when   *)
(* nothing is struck.                                                       *)
(* the intersection list taken as non-empty whatever the ray meets *)
StruckAnywhere(ndc) ==
    { i \in 1..Len(activeZombies) : ~zombies[activeZombies[i]].isSliced }

Struck(ndc) ==
    { i \in 1..Len(activeZombies) :
        /\ ~zombies[activeZombies[i]].isSliced
        /\ InLane(ndc, zombies[activeZombies[i]].lane) }

Nearest(ndc) ==
    CHOOSE i \in Struck(ndc) :
        \A j \in Struck(ndc) :
            \/ zombies[activeZombies[j]].z < zombies[activeZombies[i]].z
            \/ (zombies[activeZombies[j]].z = zombies[activeZombies[i]].z /\ i <= j)

getUVCoordsFromNDC(ndc) ==
    IF Len(activeZombies) = 0 \/ Struck(ndc) = {}
    THEN [object |-> Null, uv |-> NoUV]
    ELSE [object |-> activeZombies[Nearest(ndc)],
          uv |-> LaneUV(ndc, zombies[activeZombies[Nearest(ndc)]].lane)]

(* ------------------------------------------------------------ performSlice *)
(* The values Math.random() returns during one slice: the sign of each      *)
(* piece's rotation, the side a floor particle leaves on, and the draw r    *)
(* (in 1/1000) behind speeds and lifetimes.  Angle offsets take their mean. *)
RandomDraws ==
    { [rot1 |-> 1, rot2 |-> 0 - 1, side |-> TRUE, r |-> 250] }

AlreadySliced(targetZombie) ==
    targetZombie = Null \/ zombies[targetZombie].isSliced

(* the cooldown compared as if performance.now() were still in milliseconds *)
InCooldownMillis(t, last) == t - last < ZOMBIE_KILL_COOLDOWN \div 1000

InCooldown(t, last) == t - last < ZOMBIE_KILL_COOLDOWN

(* the assignment placed ahead of the cooldown check *)
LastKillBeforeCheck(t, last) == t

(* lastZombieKillTime after the cooldown check and the assignment behind it *)
LastKillAfterCheck(t, last) == IF InCooldown(t, last) THEN last ELSE t

(* a splice that removes nothing *)
KeepAll(seq, i) == seq

(* array.splice(i, 1) *)
RemoveAt(seq, i) == SubSeq(seq, 1, i - 1) \o SubSeq(seq, i + 1, Len(seq))

(* the target removed from the scene but left in the array *)
RetireFromSceneOnly(active, targetZombie) == active

(* activeZombies.indexOf(target), then splice when found *)
RetireTarget(active, targetZombie) ==
    IF \E i \in 1..Len(active) : active[i] = targetZombie
    THEN RemoveAt(active, CHOOSE i \in 1..Len(active) :
                      active[i] = targetZombie
                      /\ \A j \in 1..(i - 1) : active[j] # targetZombie)
    ELSE active

sliceVector(startUV, endUV) ==
    Normalize(<< Div(endUV[1] - startUV[1], 10), Div(endUV[2] - startUV[2], 10) >>)

normalVector(sliceVectorUV) == Normalize(<< 0 - sliceVectorUV[2], sliceVectorUV[1] >>)

ROTATION_SPEED == 20000

(* normalVectorWorld * magnitude, added for piece1 and subtracted for piece2 *)
AlongNormal(n, sideToKeep, magnitude) ==
    << sideToKeep * Div(n[1] * magnitude, DirOne),
       sideToKeep * Div(n[2] * magnitude, DirOne) >>

(* separation = 0.05 * originalScale.x *)
PieceSeparation(n, sideToKeep, scale) == AlongNormal(n, sideToKeep, 50 * scale)

(* both pieces thrown along +normalVectorWorld *)
ThrownAlike(n, sideToKeep, scale) == AlongNormal(n, 1, 20 * scale)

(* forceMagnitude = 0.02 * originalScale.x *)
PieceVelocity(n, sideToKeep, scale) == AlongNormal(n, sideToKeep, 20 * scale)

(* createSlicedMesh(sideToKeep) followed by the physics setup of the piece;  *)
(* id tells the mesh objects apart, numbered in the order of their creation. *)
createSlicedMesh(targetZombie, sideToKeep, startUV, endUV, rotSign) ==
    LET zr == zombies[targetZombie]
        pos == ZombiePosition(zr)
        scale == ZombieScale(zr)
        n == normalVector(sliceVector(startUV, endUV))
        separation == PieceSeparation(n, sideToKeep, scale)
    IN  [id |-> 2 * executedSlices + (IF sideToKeep = 1 THEN 1 ELSE 2),
         parent |-> targetZombie,
         sideToKeep |-> sideToKeep,
         geometry |-> zombieGeometry,
         uSliceStart |-> startUV,
         uSliceEnd |-> endUV,
         position |-> << pos[1] + separation[1], pos[2] + separation[2] >>,
         velocity |-> PieceVelocity(n, sideToKeep, scale),
         rotation |-> ROTATION_SPEED * rotSign,
         isOnFloor |-> FALSE,
         despawnTimer |-> 0]

(* a pool that hands out its first slot again once every slot is taken *)
FirstFreeOrOldest(pool) ==
    IF \E k \in 1..Len(pool) : ~pool[k].visible
    THEN CHOOSE k \in 1..Len(pool) :
             ~pool[k].visible /\ \A j \in 1..(k - 1) : pool[j].visible
    ELSE IF Len(pool) > 0 THEN 1 ELSE 0

(* bloodParticlePool.find(p => !p.sprite.visible): index of the slot, or 0 *)
FirstFree(pool) ==
    IF \E k \in 1..Len(pool) : ~pool[k].visible
    THEN CHOOSE k \in 1..Len(pool) :
             ~pool[k].visible /\ \A j \in 1..(k - 1) : pool[j].visible
    ELSE 0

(* half of the blood flying to the wall *)
HalfIsWallBlood(i) == i < numBloodParticles \div 2

(* isWallBlood = (i < Math.floor(numBloodParticles / 3)) *)
IsWallBlood(i) == i < numBloodParticles \div 3

(* a despawn timer that a new emission leaves as the last life left it *)
StaleTimer(old) == old

(* particleData.despawnTimer = 0 *)
FreshTimer(old) == 0

(* the state a pool slot is given for particle i of an emission *)
SpawnedParticle(old, i, spawnPosition, sliceVectorUV, n, scale, rnd) ==
    LET isWallBlood == IsWallBlood(i)
        wallSpeed == Div((90000 + 80 * rnd.r) * scale, 1000)
        floorSpeed == Div((30000 + 50 * rnd.r) * scale, 1000)
        sgn == IF rnd.side THEN 1 ELSE 0 - 1
    IN  [old EXCEPT
           !.visible = TRUE,
           !.position = << spawnPosition[1], spawnPosition[2],
                           spawnPosition[3] + (rnd.r - 500) * 100 >>,
           !.isWallBlood = isWallBlood,
           !.velocity = IF isWallBlood
                        THEN << Div(sliceVectorUV[1] * wallSpeed, DirOne),
                                Div(sliceVectorUV[2] * wallSpeed, DirOne),
                                0 - (180000 + 120 * rnd.r) >>
                        ELSE << sgn * Div(n[1] * floorSpeed, DirOne),
                                sgn * Div(n[2] * floorSpeed, DirOne), 0 >>,
           !.rotationSpeed = (rnd.r - 500) * 100,
           !.lifetime = IF isWallBlood THEN 1200 + (7 * rnd.r) \div 10
                        ELSE 1000 + rnd.r,
           !.isOnFloor = FALSE,
           !.despawnTimer = FreshTimer(old.despawnTimer),
           !.stuckToWall = FALSE]

RECURSIVE EmitBlood(_, _, _, _, _, _, _)
(* the loop over i = fromI .. numBloodParticles - 1 of the blood splatter *)
EmitBlood(pool, fromI, spawnPosition, sliceVectorUV, n, scale, rnd) ==
    IF fromI >= numBloodParticles THEN pool
    ELSE LET k == FirstFree(pool)
         IN  IF k = 0
             THEN EmitBlood(pool, fromI + 1, spawnPosition, sliceVectorUV, n, scale, rnd)
             ELSE EmitBlood([pool EXCEPT ![k] =
                                SpawnedParticle(pool[k], fromI, spawnPosition,
                                                sliceVectorUV, n, scale, rnd)],
                            fromI + 1, spawnPosition, sliceVectorUV, n, scale, rnd)

(* spawnPosition: the cut's midpoint mapped through the zombie's transform *)
BloodSpawnPosition(targetZombie, startUV, endUV) ==
    LET zr == zombies[targetZombie]
        pos == ZombiePosition(zr)
        scale == ZombieScale(zr)
        centerUV == << (startUV[1] + endUV[1]) \div 2, (startUV[2] + endUV[2]) \div 2 >>
        localX == (centerUV[1] - UVOne \div 2) * (PlaneWidth \div UVOne)
        localY == (centerUV[2] - UVOne \div 2) * (PlaneHeight \div UVOne)
    IN  << pos[1] + Div(localX, 1000) * scale, pos[2] + Div(localY, 1000) * scale, pos[3] >>

PoolAfterSlice(targetZombie, startUV, endUV, rnd) ==
    IF bloodTexturesLoaded
    THEN EmitBlood(bloodParticlePool, 0, BloodSpawnPosition(targetZombie, startUV, endUV),
                   sliceVector(startUV, endUV),
                   normalVector(sliceVector(startUV, endUV)),
                   ZombieScale(zombies[targetZombie]), rnd)
    ELSE bloodParticlePool

(* the score awarded once per piece instead of once per slice *)
ScoreAfterPieces(s) == s + 2 * ScorePerSlice

ScoreAfterSlice(s) == s + ScorePerSlice

(* A call performSlice(targetZombie, line[1], line[2]); line = NoUV stands   *)
(* for a resolver that returned before calling it.                           *)
performSlice(targetZombie, line, rnd) ==
    IF line = NoUV \/ AlreadySliced(targetZombie)
    THEN UNCHANGED << zombies, coreVars, historyVars >>
    ELSE IF InCooldown(now, lastZombieKillTime)
    THEN /\ rejectedAt' = now
         /\ lastZombieKillTime' = LastKillAfterCheck(now, lastZombieKillTime)
         /\ UNCHANGED << zombies, activeZombies, slicedPieces, score, bloodParticlePool,
                         executedSlices, piecesCreated, prevKillTime >>
    ELSE /\ lastZombieKillTime' = LastKillAfterCheck(now, lastZombieKillTime)
         /\ activeZombies' = RetireTarget(activeZombies, targetZombie)
         /\ zombies' = [zombies EXCEPT ![targetZombie].materialDisposed = @ + 1]
         /\ slicedPieces' = slicedPieces \o
              << createSlicedMesh(targetZombie, 1, line[1], line[2], rnd.rot1),
                 createSlicedMesh(targetZombie, 0 - 1, line[1], line[2], rnd.rot2) >>
         /\ bloodParticlePool' = PoolAfterSlice(targetZombie, line[1], line[2], rnd)
         /\ score' = ScoreAfterSlice(score)
         /\ executedSlices' = executedSlices + 1
         /\ piecesCreated' = [piecesCreated EXCEPT ![targetZombie] = @ + 2]
         /\ prevKillTime' = lastZombieKillTime
         /\ UNCHANGED rejectedAt

(* ---------------------------------------------------------- mouse handlers *)
MouseDown(p) ==
    /\ zombieGeometry # Null
    /\ sliceStartNDC' = p
    /\ LET hitData == getUVCoordsFromNDC(p)
       IN  IF hitData.object # Null
           THEN /\ sliceStartUV' = hitData.uv
                /\ sliceStartValid' = TRUE
                /\ zombieToSlice' = hitData.object
                /\ isSlicing' = TRUE
           ELSE /\ sliceStartValid' = FALSE
                /\ zombieToSlice' = Null
                /\ isSlicing' = FALSE
                /\ UNCHANGED sliceStartUV
    /\ sliceEndValid' = FALSE
    /\ UNCHANGED << now, assetVars, spawnerVars, zombies, coreVars, disposedGeometries,
                    lives, gameOver, historyVars, camVars, previousFingerTipNDC >>

(* a flag that a release leaves as it was *)
KeepFlag(flag) == flag

(* isSlicing = false, whether or not a slice happened *)
ReleaseFlag(flag) == FALSE

(* mouseup; sliceEndValid is assigned from the hit test (endValid), read by *)
(* calculateAndPerformSlice and reset before the handler returns            *)
MouseUp(p, rnd) ==
    /\ IF isSlicing /\ zombieToSlice # Null
       THEN LET hitData == getUVCoordsFromNDC(p)
                endValid == hitData.object # Null /\ hitData.object = zombieToSlice
            IN  IF NDCFartherThan(sliceStartNDC, p, MouseDragThreshold)
                THEN performSlice(zombieToSlice,
                                  ResolveMouse(zombieToSlice, sliceStartValid, endValid,
                                               sliceStartUV, hitData.uv, sliceStartNDC, p),
                                  rnd)
                ELSE UNCHANGED << zombies, coreVars, historyVars >>
       ELSE UNCHANGED << zombies, coreVars, historyVars >>
    /\ isSlicing' = ReleaseFlag(isSlicing)
    /\ sliceStartValid' = FALSE
    /\ sliceEndValid' = FALSE
    /\ zombieToSlice' = Null
    /\ UNCHANGED << now, assetVars, spawnerVars, disposedGeometries, lives, gameOver,
                    sliceStartNDC, sliceStartUV, camVars, previousFingerTipNDC >>

(* ----------------------------------------------------------------- webcam *)
(* click on the webcam button: enableCam *)
EnableCam(lane, baseScale) ==
    /\ handLandmarker
    /\ IF webcamRunning
       THEN /\ webcamRunning' = FALSE
            /\ SetSpawner(IF spawnIntervalId # Null THEN stopZombieSpawner(SpawnerState)
                          ELSE SpawnerState)
            /\ srcObject' = FALSE
            /\ UNCHANGED camRequests
       ELSE /\ webcamRunning' = TRUE
            /\ camRequests' = camRequests + 1
            /\ IF allZombieFramesLoaded /\ zombieGeometry # Null
               THEN SetSpawner(startZombieSpawner(SpawnerState, gameOver, TRUE,
                                                  zombieGeometry, lane, baseScale))
               ELSE UNCHANGED << spawnerVars, zombies, activeZombies, piecesCreated >>
            /\ UNCHANGED srcObject
    /\ UNCHANGED << now, assetVars, bloodParticlePool, slicedPieces, score,
                    lastZombieKillTime, disposedGeometries, lives, gameOver,
                    executedSlices, prevKillTime, rejectedAt, mouseVars, predictLoops,
                    previousFingerTipNDC >>

(* getUserMedia resolves: the stream is attached and its loadeddata event   *)
(* schedules predictWebcam                                                  *)
CamGranted ==
    /\ camRequests > 0
    /\ camRequests' = camRequests - 1
    /\ srcObject' = TRUE
    /\ predictLoops' = predictLoops + 1
    /\ UNCHANGED << now, assetVars, spawnerVars, zombies, coreVars, disposedGeometries,
                    lives, gameOver, historyVars, mouseVars, webcamRunning,
                    previousFingerTipNDC >>

(* getUserMedia rejects *)
CamDenied ==
    /\ camRequests > 0
    /\ camRequests' = camRequests - 1
    /\ webcamRunning' = FALSE
    /\ UNCHANGED << now, assetVars, spawnerVars, zombies, coreVars, disposedGeometries,
                    lives, gameOver, historyVars, mouseVars, srcObject, predictLoops,
                    previousFingerTipNDC >>

(* ------------------------------------------------------------- hand frames *)
NoHand == << >>

(* a frame without a hand that leaves the screen centre as the last point *)
CentredByGap(previous) == << 0, 0 >>

(* previousFingerTipNDC = null, for a frame with no hand or no fingertip *)
ClearedByGap(previous) == NoNDC

(* processHandData(results) when the game is not over; sample is the index  *)
(* fingertip in NDC, or NoHand when the frame shows no hand                 *)
processHandData(sample, rnd) ==
    IF sample = NoHand
    THEN /\ previousFingerTipNDC' = ClearedByGap(previousFingerTipNDC)
         /\ UNCHANGED << zombies, coreVars, historyVars >>
    ELSE /\ previousFingerTipNDC' = sample
         /\ IF previousFingerTipNDC # NoNDC
            THEN IF NDCFartherThan(sample, previousFingerTipNDC, SLICE_GESTURE_THRESHOLD)
                 THEN LET startHitData == getUVCoordsFromNDC(previousFingerTipNDC)
                          targetZombie == startHitData.object
                          endHitData == getUVCoordsFromNDC(sample)
                          endUVIfValid == IF endHitData.object # Null
                                             /\ endHitData.object = targetZombie
                                          THEN endHitData.uv ELSE NoUV
                      IN  IF targetZombie # Null
                          THEN performSlice(targetZombie,
                                            ResolveHand(targetZombie, startHitData.uv,
                                                        previousFingerTipNDC, sample,
                                                        endUVIfValid),
                                            rnd)
                          ELSE UNCHANGED << zombies, coreVars, historyVars >>
                 ELSE UNCHANGED << zombies, coreVars, historyVars >>
            ELSE UNCHANGED << zombies, coreVars, historyVars >>

(* one invocation of predictWebcam *)
HandFrame(sample, rnd) ==
    /\ predictLoops > 0
    /\ IF ~webcamRunning
       THEN /\ predictLoops' = predictLoops - 1
            /\ UNCHANGED << zombies, coreVars, historyVars, previousFingerTipNDC >>
       ELSE /\ UNCHANGED predictLoops
            /\ IF gameOver
               THEN UNCHANGED << zombies, coreVars, historyVars, previousFingerTipNDC >>
               ELSE processHandData(sample, rnd)
    /\ UNCHANGED << now, assetVars, spawnerVars, disposedGeometries, lives, gameOver,
                    mouseVars, webcamRunning, camRequests, srcObject >>

(* --------------------------------------------------------- the render tick *)
(* a despawn timer that never runs out *)
NeverDue(timer) == FALSE

(* a despawn timer that has to pass DESPAWN_TIME *)
DespawnOverdue(timer) == timer > DESPAWN_TIME

(* piece.userData.despawnTimer >= DESPAWN_TIME *)
DespawnDue(timer) == timer >= DESPAWN_TIME

(* a piece that is left where its fall ended *)
RestWhereFallen(y) == y

(* piece.position.y = FLOOR_Y *)
RestHeight(y) == FLOOR_Y

(* a damped value that is kept however small it is *)
KeepIfSlow(v) == v

(* if (Math.abs(v) < 0.001) v = 0 *)
StopIfSlow(v) == IF Abs(v) < 1000 THEN 0 ELSE v

(* one pass of the sliced-piece loop body; despawn = TRUE when the piece is  *)
(* removed (scene.remove, geometry.dispose, material.dispose, splice)        *)
StepPiece(piece, deltaTime) ==
    IF ~piece.isOnFloor
    THEN LET x == piece.position[1] + piece.velocity[1]
             y == piece.position[2] + piece.velocity[2]
             vy == piece.velocity[2] - 1000
         IN  IF y <= FLOOR_Y
             THEN [despawn |-> FALSE,
                   piece |-> [piece EXCEPT !.position = << x, RestHeight(y) >>,
                                           !.isOnFloor = TRUE,
                                           !.velocity = << piece.velocity[1], 0 >>,
                                           !.despawnTimer = 0]]
             ELSE [despawn |-> FALSE,
                   piece |-> [piece EXCEPT !.position = << x, y >>,
                                           !.velocity = << piece.velocity[1], vy >>]]
    ELSE LET vx == Div(piece.velocity[1] * DAMPING, 100)
             rot == Div(piece.rotation * DAMPING, 100)
             timer == piece.despawnTimer + deltaTime
         IN  [despawn |-> DespawnDue(timer),
              piece |-> [piece EXCEPT
                           !.position = << piece.position[1] + vx, piece.position[2] >>,
                           !.velocity = << StopIfSlow(vx), piece.velocity[2] >>,
                           !.rotation = StopIfSlow(rot),
                           !.despawnTimer = timer]]

RECURSIVE ForwardFrom(_, _, _)
(* a loop over slicedPieces from index i upwards that goes on to i + 1      *)
(* after a splice                                                           *)
ForwardFrom(pieces, i, deltaTime) ==
    IF i > Len(pieces) THEN pieces
    ELSE LET r == StepPiece(pieces[i], deltaTime)
         IN  IF r.despawn
             THEN ForwardFrom(RemoveAt(pieces, i), i + 1, deltaTime)
             ELSE ForwardFrom([pieces EXCEPT ![i] = r.piece], i + 1, deltaTime)

SweepPiecesForwards(pieces, i, deltaTime) == ForwardFrom(pieces, 1, deltaTime)

RECURSIVE SweepPieces(_, _, _)
(* the reverse loop over slicedPieces from index i down to 1 *)
SweepPieces(pieces, i, deltaTime) ==
    IF i < 1 THEN pieces
    ELSE LET r == StepPiece(pieces[i], deltaTime)
         IN  IF r.despawn
             THEN SweepPieces(RemoveAt(pieces, i), i - 1, deltaTime)
             ELSE SweepPieces([pieces EXCEPT ![i] = r.piece], i - 1, deltaTime)

(* geometries disposed by the despawns of one sweep: piece.geometry.dispose() *)
GeometriesDisposedBy(pieces, deltaTime) ==
    { pieces[i].geometry : i \in { j \in 1..Len(pieces) :
                                      StepPiece(pieces[j], deltaTime).despawn } }

(* a wall timer that runs out on reaching 4.5 s *)
WallDueAtLimit(timer) == timer >= WALL_DESPAWN_TIME

(* particleData.despawnTimer > 4.5 *)
WallDue(timer) == timer > WALL_DESPAWN_TIME

(* a puddle that is never taken away *)
PuddleNeverDue(timer) == FALSE

(* particleData.despawnTimer >= DESPAWN_TIME *)
PuddleDue(timer) == timer >= DESPAWN_TIME

(* the body of bloodParticlePool.forEach for one particle *)
StepParticle(pd, deltaTime) ==
    IF ~pd.visible THEN pd
    ELSE IF pd.isWallBlood
    THEN LET moved ==
               IF ~pd.stuckToWall
               THEN LET pos == << pd.position[1] + pd.velocity[1],
                                  pd.position[2] + pd.velocity[2],
                                  pd.position[3] + pd.velocity[3] >>
                    IN  IF pos[3] <= ZOMBIE_START_Z
                        THEN [pd EXCEPT !.position = << pos[1], pos[2], ZOMBIE_START_Z >>,
                                        !.velocity = << 0, 0, 0 >>,
                                        !.stuckToWall = TRUE,
                                        !.despawnTimer = 0]
                        ELSE [pd EXCEPT !.position = pos,
                                        !.velocity = << pd.velocity[1],
                                                        pd.velocity[2] - 3000,
                                                        pd.velocity[3] >>]
               ELSE IF WallDue(pd.despawnTimer + deltaTime)
                    THEN [pd EXCEPT !.despawnTimer = @ + deltaTime,
                                    !.visible = FALSE,
                                    !.stuckToWall = FALSE]
                    ELSE [pd EXCEPT !.despawnTimer = @ + deltaTime]
             lifetime == pd.lifetime - deltaTime
         IN  [moved EXCEPT !.lifetime = lifetime,
                           !.visible = IF lifetime <= 0 /\ ~moved.stuckToWall
                                       THEN FALSE ELSE @]
    ELSE IF ~pd.isOnFloor
    THEN LET lifetime == pd.lifetime - deltaTime
         IN  IF lifetime <= 0
             THEN [pd EXCEPT !.lifetime = lifetime, !.visible = FALSE]
             ELSE LET x == pd.position[1] + pd.velocity[1]
                      y == pd.position[2] + pd.velocity[2]
                  IN  IF y <= FLOOR_Y
                      THEN [pd EXCEPT !.lifetime = lifetime,
                                      !.position = << x, FLOOR_Y, pd.position[3] >>,
                                      !.isOnFloor = TRUE,
                                      !.velocity = << 0, 0, pd.velocity[3] >>,
                                      !.rotationSpeed = 0,
                                      !.despawnTimer = 0]
                      ELSE [pd EXCEPT !.lifetime = lifetime,
                                      !.position = << x, y, pd.position[3] >>,
                                      !.velocity = << pd.velocity[1],
                                                      pd.velocity[2] - 5000,
                                                      pd.velocity[3] >>]
    ELSE IF PuddleDue(pd.despawnTimer + deltaTime)
         THEN [pd EXCEPT !.visible = FALSE, !.isOnFloor = FALSE, !.despawnTimer = 0]
         ELSE [pd EXCEPT !.despawnTimer = @ + deltaTime]

(* a zombie that stands where it was spawned *)
StandStill(zr, deltaTime) == zr

(* zombie.position.addScaledVector(velocity, deltaTime) *)
MoveZombie(zr, deltaTime) ==
    [zr EXCEPT !.z = @ + Div(ZOMBIE_WALK_SPEED * deltaTime, 1)]

ReachedEnd(zr) == zr.z >= ZOMBIE_END_Z

(* a zombie at the near plane costs a life whatever the game's state *)
LosesLifeAlways(isOver, left) == TRUE

(* if (!gameOver && lives > 0) *)
LosesLife(isOver, left) == ~isOver /\ left > 0

RECURSIVE SweepZombies(_, _, _)
(* the reverse loop over activeZombies from index i down to 1; st carries    *)
(* zombies, activeZombies, lives and gameOver                                *)
SweepZombies(st, i, deltaTime) ==
    IF i < 1 THEN st
    ELSE LET id == st.activeZombies[i]
             moved == MoveZombie(st.zombies[id], deltaTime)
         IN  IF ReachedEnd(moved)
             THEN LET hurt == LosesLife(st.gameOver, st.lives)
                      left == IF hurt THEN st.lives - 1 ELSE st.lives
                  IN  SweepZombies(
                        [zombies |-> [st.zombies EXCEPT ![id] =
                                        [moved EXCEPT !.materialDisposed = @ + 1]],
                         activeZombies |-> RemoveAt(st.activeZombies, i),
                         lives |-> left,
                         gameOver |-> st.gameOver \/ (hurt /\ left = 0)],
                        i - 1, deltaTime)
             ELSE SweepZombies([st EXCEPT !.zombies[id] = moved], i - 1, deltaTime)

(* animate(): one frame, deltaTime ms after the previous one *)
Tick(deltaTime) ==
    /\ now' = now + deltaTime
    /\ LET st == SweepZombies([zombies |-> zombies, activeZombies |-> activeZombies,
                               lives |-> lives, gameOver |-> gameOver],
                              Len(activeZombies), deltaTime)
           over == st.gameOver /\ ~gameOver
       IN  /\ zombies' = st.zombies
           /\ activeZombies' = st.activeZombies
           /\ lives' = st.lives
           /\ gameOver' = st.gameOver
           (* showGameOver: stopZombieSpawner(), then enableCam() if running *)
           /\ IF over
              THEN /\ spawnIntervalId' = Null
                   /\ timers' = timers \ {spawnIntervalId}
                   /\ webcamRunning' = FALSE
                   /\ srcObject' = IF webcamRunning THEN FALSE ELSE srcObject
              ELSE UNCHANGED << spawnIntervalId, timers, webcamRunning, srcObject >>
    /\ slicedPieces' = SweepPieces(slicedPieces, Len(slicedPieces), deltaTime)
    /\ disposedGeometries' =
         disposedGeometries \cup GeometriesDisposedBy(slicedPieces, deltaTime)
    /\ bloodParticlePool' =
         IF bloodTexturesLoaded
         THEN [k \in 1..Len(bloodParticlePool) |->
                 StepParticle(bloodParticlePool[k], deltaTime)]
         ELSE bloodParticlePool
    /\ UNCHANGED << assetVars, nextTimerId, score, lastZombieKillTime, historyVars,
                    mouseVars, camRequests, predictLoops, previousFingerTipNDC >>

(* ------------------------------------------------------ the specification *)
(* The environment of every specification below.  Texture requests are      *)
(* answered in the order they were made (the module-level blood textures    *)
(* and frames, then the frames and blood textures of loadAssets), the       *)
(* landmarker is built while the first textures load, and no input event or *)
(* frame falls between the callbacks of a loader.                           *)
BloodDone(l) == loadedBloodCount[l] = BloodTextureFileCount
FramesDone(l) == loadedZombieFrameCount[l] = ZOMBIE_FRAME_COUNT
BloodTurn(l) == IF l = 1 THEN TRUE ELSE FramesDone(2)
FramesTurn(l) == IF l = 1 THEN BloodDone(1) ELSE FramesDone(1)
Settled ==
    /\ BloodDone(1) /\ FramesDone(1)
    /\ handLandmarker => (BloodDone(2) /\ FramesDone(2))

(* room for one more zombie and for the two timers a start can create *)
SpawnRoom(maxZombies) == Len(zombies) < maxZombies /\ nextTimerId + 1 <= MaxTimers

WouldSpawn == ~gameOver /\ allZombieFramesLoaded /\ zombieGeometry # Null

LoadNext(maxZombies) ==
    /\ UNCHANGED probe
    /\ \/ \E l \in Loaders : BloodTurn(l) /\ BloodTextureLoaded(l)
       \/ \E l \in Loaders, lane \in SpawnLanes, b \in BaseScales :
             /\ FramesTurn(l)
             /\ (l = 1 /\ loadedZombieFrameCount[1] + 1 = ZOMBIE_FRAME_COUNT) =>
                    SpawnRoom(maxZombies)
             /\ ZombieFrameLoaded(l, lane, b)
       \/ ~FramesDone(1) /\ HandLandmarkerCreated

SpawnNext(maxZombies) ==
    \E id \in timers, lane \in SpawnLanes, b \in BaseScales :
        /\ Settled
        /\ WouldSpawn => SpawnRoom(maxZombies)
        /\ SpawnTimerFires(id, lane, b)
        /\ UNCHANGED probe

MouseNext(points) ==
    /\ UNCHANGED probe
    /\ \/ \E p \in points : Settled /\ MouseDown(p)
       \/ \E p \in points, rnd \in RandomDraws : Settled /\ MouseUp(p, rnd)

CamNext(maxZombies) ==
    /\ UNCHANGED probe
    /\ \/ \E lane \in SpawnLanes, b \in BaseScales :
             /\ Settled
             /\ ~webcamRunning => camRequests < MaxCamRequests
             /\ (~webcamRunning /\ WouldSpawn) => SpawnRoom(maxZombies)
             /\ EnableCam(lane, b)
       \/ Settled /\ predictLoops < MaxPredictLoops /\ CamGranted
       \/ Settled /\ CamDenied

HandNext(points) ==
    \E sample \in points \cup {NoHand}, rnd \in RandomDraws :
        Settled /\ HandFrame(sample, rnd) /\ UNCHANGED probe

TickNext(deltaTimes, maxNow) ==
    \E dt \in deltaTimes :
        Settled /\ now + dt <= maxNow /\ Tick(dt) /\ UNCHANGED probe

(* The game with both input sources. *)
PLow == << 0 - 5000, 0 - 2500 >>
PHigh == << 0 - 3000, 2500 >>
POff == << 0, 8000 >>
Points == { PLow, PHigh }
DeltaTimes == {125}

Next ==
    \/ LoadNext(MaxZombies)
    \/ SpawnNext(MaxZombies)
    \/ MouseNext(Points)
    \/ CamNext(MaxZombies)
    \/ HandNext(Points)
    \/ TickNext(DeltaTimes, MaxNow)

Spec == Init /\ [][Next]_vars

(* The same game with gestures that start or end off every zombie. *)
GestureNext ==
    \/ LoadNext(GestureMaxZombies)
    \/ SpawnNext(GestureMaxZombies)
    \/ MouseNext(Points \cup {POff})
    \/ CamNext(GestureMaxZombies)
    \/ HandNext(Points \cup {POff})
    \/ TickNext(DeltaTimes, GestureMaxNow)

SpecGesture == Init /\ [][GestureNext]_vars

(* Mouse play over three zombies, long enough for three slices. *)
PoolDeltaTimes == {250}

PoolNext ==
    \/ LoadNext(PoolMaxZombies)
    \/ SpawnNext(PoolMaxZombies)
    \/ MouseNext(Points)
    \/ TickNext(PoolDeltaTimes, PoolMaxNow)

SpecPool == Init /\ [][PoolNext]_vars

(* Mouse play on the first zombie, long enough for the pieces of a slice to *)
(* land and rest; the spawn timer stays silent.                             *)
LongDeltaTimes == {500}

LongNext ==
    \/ LoadNext(LongMaxZombies)
    \/ MouseNext(Points)
    \/ TickNext(LongDeltaTimes, LongMaxNow)

SpecLong == Init /\ [][LongNext]_vars

(* Zombies left to walk: nothing is sliced, frames come every SiegeDeltaTime *)
(* milliseconds, and the spawn timer brings up to SiegeMaxZombies zombies,   *)
(* one more than there are lives.                                            *)
SiegeDeltaTimes == {SiegeDeltaTime}

SiegeNext ==
    \/ LoadNext(SiegeMaxZombies)
    \/ SpawnNext(SiegeMaxZombies)
    \/ TickNext(SiegeDeltaTimes, SiegeMaxNow)

SpecSiege == Init /\ [][SiegeNext]_vars

(* The spawner under the webcam button: no gesture is made, the frames     *)
(* load, the webcam is enabled and disabled, and every pending interval     *)
(* timer may fire, in any order, between a few frames.                      *)
SpawnerDeltaTimes == {SpawnerDeltaTime}

SpawnerNext ==
    \/ LoadNext(SpawnerMaxZombies)
    \/ SpawnNext(SpawnerMaxZombies)
    \/ CamNext(SpawnerMaxZombies)
    \/ TickNext(SpawnerDeltaTimes, SpawnerMaxNow)

SpecSpawner == Init /\ [][SpawnerNext]_vars

(* The siege with a player who touches the mouse only once the game is     *)
(* over, while the zombies spawned before still walk.                       *)
AfterGameNext ==
    \/ LoadNext(SiegeMaxZombies)
    \/ SpawnNext(SiegeMaxZombies)
    \/ gameOver /\ MouseNext(Points)
    \/ TickNext(SiegeDeltaTimes, SiegeMaxNow)

SpecAfterGame == Init /\ [][AfterGameNext]_vars

(* Two zombies, spawned in the first WalkSpawnBy milliseconds, that are     *)
(* sliced with the mouse in that time or left to walk to the near plane.    *)
(* animate re-requests itself on every frame, so the tick is weakly fair,   *)
(* and the run is long enough for the last zombie to arrive.                *)
WalkDeltaTimes == {WalkDeltaTime}

WalkNext ==
    \/ LoadNext(WalkMaxZombies)
    \/ now <= WalkSpawnBy /\ SpawnNext(WalkMaxZombies)
    \/ now <= WalkSpawnBy /\ MouseNext(Points)
    \/ TickNext(WalkDeltaTimes, WalkMaxNow)

SpecWalk ==
    Init /\ [][WalkNext]_vars /\ WF_vars(TickNext(WalkDeltaTimes, WalkMaxNow))

(* Two slices that share pool slots: the first zombie is sliced at the wall *)
(* in the first ReuseSliceBy milliseconds, frames come every ReuseDeltaTime *)
(* milliseconds while its blood flies and then every ReuseSlowDeltaTime     *)
(* milliseconds until what has stuck or landed is despawned, and from       *)
(* ReuseLateFrom on a second zombie is spawned and sliced.                  *)
ReuseDeltaTimes == {ReuseDeltaTime}
ReuseSlowDeltaTimes == {ReuseSlowDeltaTime}

ReuseNext ==
    \/ LoadNext(ReuseMaxZombies)
    \/ now >= ReuseLateFrom /\ SpawnNext(ReuseMaxZombies)
    \/ (now <= ReuseSliceBy \/ now >= ReuseLateFrom) /\ MouseNext(Points)
    \/ now < ReuseFastUntil /\ TickNext(ReuseDeltaTimes, ReuseMaxNow)
    \/ now >= ReuseFastUntil /\ TickNext(ReuseSlowDeltaTimes, ReuseMaxNow)

SpecReuse == Init /\ [][ReuseNext]_vars

(* Mouse play on the first zombie at a frame rate at which blood lands,     *)
(* either while the zombie is at the wall (the first BloodSliceBy           *)
(* milliseconds) or once it has walked away from it (BloodLateFrom to       *)
(* BloodLateBy), and then until whatever the slice left has despawned.      *)
(* Frames keep coming: the tick is weakly fair.                             *)
BloodDeltaTimes == {BloodDeltaTime}

BloodSliceTime ==
    \/ now <= BloodSliceBy
    \/ now >= BloodLateFrom /\ now <= BloodLateBy

BloodNext ==
    \/ LoadNext(BloodMaxZombies)
    \/ BloodSliceTime /\ MouseNext(Points)
    \/ TickNext(BloodDeltaTimes, BloodMaxNow)

SpecBlood ==
    Init /\ [][BloodNext]_vars /\ WF_vars(TickNext(BloodDeltaTimes, BloodMaxNow))

(* ------------------------------------------ intersectUVSquare on its own *)
(* Start points on a grid of the unit square, interior and border, and      *)
(* directions of every length: unit vectors and short vectors in 1/DirOne,  *)
(* and vectors with components around 1e-6 in 1/FineOne.                    *)
IntersectCoords == {0, 1, 30000, 99000, UVOne}
IntersectStarts == IntersectCoords \X IntersectCoords
IntersectDirections ==
    { << d, DirOne >> : d \in { << DirOne, 0 >>, << 0, 0 - DirOne >>,
                                << 0 - 600, 800 >>, << 707, 0 - 707 >>,
                                << 2, 1 >>, << 0, 0 >> } }
    \cup
    { << d, FineOne >> : d \in { << 5, 0 >>, << 5, 0 - 5 >>, << 9, 100 >>,
                                 << 10, 0 >>, << 0 - 10, 10 >>, << 0, 2000 >>,
                                 << 0 - 2000, 11 >> } }

IntersectInit ==
    /\ GameInit
    /\ probe \in
         { [applied |-> FALSE, startPoint |-> s, direction |-> d[1], one |-> d[2],
            t |-> TNegInf, out |-> NoUV] :
             s \in IntersectStarts, d \in IntersectDirections }

Intersect ==
    /\ ~probe.applied
    /\ probe' =
         [probe EXCEPT
            !.applied = TRUE,
            !.t = ExitParameter(probe.startPoint, probe.direction, probe.one),
            !.out = IntersectUVSquareIn(probe.startPoint, probe.direction, probe.one)]
    /\ UNCHANGED gameVars

IntersectNext == Intersect

SpecIntersect == IntersectInit /\ [][IntersectNext]_vars

(* Mouse play on the first zombie within the first LifeSliceBy milliseconds, *)
(* at a frame rate that lets pieces and blood come to rest, and long enough  *)
(* for whatever a slice created to despawn.                                  *)
LifeDeltaTimes == {LifeDeltaTime}

LifeNext ==
    \/ LoadNext(LifeMaxZombies)
    \/ now <= LifeSliceBy /\ MouseNext(Points)
    \/ TickNext(LifeDeltaTimes, LifeMaxNow)

SpecLife == Init /\ [][LifeNext]_vars

(* The same play at two frames a second, until the pieces of a slice made    *)
(* within the first FallSliceBy milliseconds have fallen, rested and gone.   *)
(* animate() starts with requestAnimationFrame(animate), so frames keep      *)
(* coming: the tick is weakly fair.                                          *)
FallDeltaTimes == {500}

FallNext ==
    \/ LoadNext(FallMaxZombies)
    \/ now <= FallSliceBy /\ MouseNext(Points)
    \/ TickNext(FallDeltaTimes, FallMaxNow)

SpecFall ==
    Init /\ [][FallNext]_vars /\ WF_vars(TickNext(FallDeltaTimes, FallMaxNow))

(* --------------------------------------- a slice and its shader on their own *)
(* One cut line given to performSlice, the offset and velocity it gives the  *)
(* two pieces of a zombie of scale 1, and the fragment of both pieces at one *)
(* UV point.  The lines are at least 0.001 long, as the resolvers hand on.   *)
Sides == {1, 0 - 1}
ShaderLines ==
    { << << 20000, 50000 >>, << 80000, 50000 >> >>,
      << << 30000, 30000 >>, << 30000, 30100 >> >>,
      << << 0, 0 >>, << UVOne, UVOne >> >>,
      << << 80000, 10000 >>, << 20000, 90000 >> >>,
      << << 90000, 40000 >>, << 20000, 10000 >> >>,
      << << 50000, UVOne >>, << 50000, 0 >> >> }
ShaderCoords == {0, 10000, 30000, 30050, 50000, 70000, UVOne}
ShaderSamples == ShaderCoords \X ShaderCoords
ShaderScale == 1000

ShaderInit ==
    /\ GameInit
    /\ probe \in
         { [applied |-> FALSE, uSliceStart |-> l[1], uSliceEnd |-> l[2], vUv |-> p,
            kept |-> [s \in Sides |-> FALSE],
            separation |-> [s \in Sides |-> << 0, 0 >>],
            velocity |-> [s \in Sides |-> << 0, 0 >>]] :
             l \in ShaderLines, p \in ShaderSamples }

SliceAndShade ==
    /\ ~probe.applied
    /\ LET n == normalVector(sliceVector(probe.uSliceStart, probe.uSliceEnd))
       IN  probe' =
             [probe EXCEPT
                !.applied = TRUE,
                !.kept = [s \in Sides |->
                            FragmentKept(probe.uSliceStart, probe.uSliceEnd, s,
                                         probe.vUv)],
                !.separation = [s \in Sides |-> PieceSeparation(n, s, ShaderScale)],
                !.velocity = [s \in Sides |-> PieceVelocity(n, s, ShaderScale)]]
    /\ UNCHANGED gameVars

ShaderNext == SliceAndShade

SpecShader == ShaderInit /\ [][ShaderNext]_vars

(* ------------------------------------------- the shader's special cases *)
(* The fragment shader with the uniforms of an uncut zombie (both points at *)
(* the origin, uSideToKeep = 0) and with cut lines around the length 0.0001 *)
(* below which it does not compute a normal.                                *)
UniformSides == {1, 0, 0 - 1}
UniformLines ==
    { << << 0, 0 >>, << 0, 0 >> >>,
      << << 30000, 30000 >>, << 30000, 30000 >> >>,
      << << 30000, 30000 >>, << 30006, 30007 >> >>,
      << << 30000, 30000 >>, << 30000, 30010 >> >>,
      << << 20000, 50000 >>, << 80000, 50000 >> >> }

UniformInit ==
    /\ GameInit
    /\ probe \in
         { [applied |-> FALSE, uSliceStart |-> l[1], uSliceEnd |-> l[2], vUv |-> p,
            kept |-> [s \in UniformSides |-> FALSE]] :
             l \in UniformLines, p \in ShaderSamples }

Shade ==
    /\ ~probe.applied
    /\ probe' =
         [probe EXCEPT
            !.applied = TRUE,
            !.kept = [s \in UniformSides |->
                        FragmentKept(probe.uSliceStart, probe.uSliceEnd, s, probe.vUv)]]
    /\ UNCHANGED gameVars

UniformNext == Shade

SpecUniform == UniformInit /\ [][UniformNext]_vars

(* ------------------------------------------------ the resolvers on their own *)
(* Both resolvers applied to one set of arguments: a start UV the raycaster  *)
(* can return, the pointer's two NDC positions (farther apart than either    *)
(* caller's threshold) and the end hit, NoUV when the end point missed the   *)
(* target or struck another zombie.                                          *)
ResolveCoords == {0, 30000, 99950, UVOne}
ResolveStartUVs == ResolveCoords \X ResolveCoords
ResolveStartNDC == << 0, 0 >>
ResolveEndNDCs ==
    { << NDCOne, 0 >>, << 0, 0 - 5000 >>, << 0 - 3000, 2000 >>, << 300, 300 >> }
ResolveEndHits ==
    { NoUV, << 30000, 30050 >>, << 30000, 30100 >>, << 80000, 50000 >> }
ResolveTarget == 1

ResolveInit ==
    /\ GameInit
    /\ probe \in
         { [applied |-> FALSE, startUV |-> s, startNDC |-> ResolveStartNDC,
            endNDC |-> e, endHit |-> h, mouse |-> NoUV, hand |-> NoUV] :
             s \in ResolveStartUVs, e \in ResolveEndNDCs, h \in ResolveEndHits }

(* mouseup calls calculateAndPerformSlice with sliceStartValid set and       *)
(* sliceEndValid telling whether the end hit the target; processHandData     *)
(* calls calculateAndPerformSliceHand with the end UV or null.               *)
Resolve ==
    /\ ~probe.applied
    /\ probe' =
         [probe EXCEPT
            !.applied = TRUE,
            !.mouse = ResolveMouse(ResolveTarget, TRUE, probe.endHit # NoUV,
                                   probe.startUV, probe.endHit,
                                   probe.startNDC, probe.endNDC),
            !.hand = ResolveHand(ResolveTarget, probe.startUV, probe.startNDC,
                                 probe.endNDC, probe.endHit)]
    /\ UNCHANGED gameVars

ResolveNext == Resolve

SpecResolve == ResolveInit /\ [][ResolveNext]_vars

(* The resolvers applied to a drag of length zero: the pointer's two NDC    *)
(* positions are one point, while the two raycasts, made at different      *)
(* times, may have struck the target at different UVs or the second may    *)
(* have missed it.                                                         *)
ZeroDragPoints == { << 0, 0 >>, PLow }

ZeroDragInit ==
    /\ GameInit
    /\ probe \in
         { [applied |-> FALSE, startUV |-> s, startNDC |-> p, endNDC |-> p,
            endHit |-> h, mouse |-> NoUV, hand |-> NoUV] :
             s \in ResolveStartUVs, p \in ZeroDragPoints, h \in ResolveEndHits }

ZeroDragNext == Resolve

SpecZeroDrag == ZeroDragInit /\ [][ZeroDragNext]_vars

(* ---------------------------------------------------------- slice requests *)
(* The request a gesture hands to performSlice, read off the state before    *)
(* the handler runs: its target and its resolved line.  target = Null when   *)
(* the handler makes no request.                                             *)
NoRequest == [target |-> Null, line |-> NoUV]

MouseRequest(p) ==
    IF isSlicing /\ zombieToSlice # Null
       /\ NDCFartherThan(sliceStartNDC, p, MouseDragThreshold)
    THEN LET hitData == getUVCoordsFromNDC(p)
             endValid == hitData.object # Null /\ hitData.object = zombieToSlice
         IN  [target |-> zombieToSlice,
              line |-> ResolveMouse(zombieToSlice, sliceStartValid, endValid,
                                    sliceStartUV, hitData.uv, sliceStartNDC, p)]
    ELSE NoRequest

HandRequest(sample) ==
    IF /\ predictLoops > 0 /\ webcamRunning /\ ~gameOver
       /\ sample # NoHand /\ previousFingerTipNDC # NoNDC
       /\ NDCFartherThan(sample, previousFingerTipNDC, SLICE_GESTURE_THRESHOLD)
       /\ getUVCoordsFromNDC(previousFingerTipNDC).object # Null
    THEN LET startHitData == getUVCoordsFromNDC(previousFingerTipNDC)
             endHitData == getUVCoordsFromNDC(sample)
             endUVIfValid == IF endHitData.object = startHitData.object
                             THEN endHitData.uv ELSE NoUV
         IN  [target |-> startHitData.object,
              line |-> ResolveHand(startHitData.object, startHitData.uv,
                                   previousFingerTipNDC, sample, endUVIfValid)]
    ELSE NoRequest

IsActive(z) == \E i \in 1..Len(activeZombies) : activeZombies[i] = z

(* a target that is active and has never been sliced *)
Fresh(z) == z # Null /\ IsActive(z) /\ piecesCreated[z] = 0

ValidFresh(r) == Fresh(r.target) /\ r.line # NoUV

Executes == executedSlices' = executedSlices + 1
NoSlice == executedSlices' = executedSlices

AllPoints == Points \cup {POff}

(* P holds of every request a step of a handler serves *)
MouseServes(P(_)) ==
    (now' = now /\ UNCHANGED previousFingerTipNDC /\ ~isSlicing') =>
        \A p \in AllPoints, rnd \in RandomDraws : MouseUp(p, rnd) => P(MouseRequest(p))

HandServes(P(_)) ==
    (now' = now /\ UNCHANGED mouseVars /\ predictLoops > 0) =>
        \A sample \in AllPoints \cup {NoHand}, rnd \in RandomDraws :
            HandFrame(sample, rnd) => P(HandRequest(sample))

(* ------------------------------------------------------------------ claims *)
(* C1: a zombie contributes at most two entries to slicedPieces over its     *)
(* lifetime: performSlice on a target it already sliced yields no second     *)
(* pair of pieces.                                                           *)
C1_AtMostTwoPieces ==
    \A z \in 1..Len(piecesCreated) : piecesCreated[z] <= 2

(* C2: at most MAX_BLOOD_PARTICLES particles are live (their sprite visible) *)
(* at any time.                                                              *)
LiveParticles == { k \in 1..Len(bloodParticlePool) : bloodParticlePool[k].visible }

C2_PoolBound == Cardinality(LiveParticles) <= MAX_BLOOD_PARTICLES

(* C3: once a slice executed, a valid request on a fresh target that arrives *)
(* less than ZOMBIE_KILL_COOLDOWN after it does not execute, one that        *)
(* arrives more than ZOMBIE_KILL_COOLDOWN after it does, and any two         *)
(* executed slices lie at least ZOMBIE_KILL_COOLDOWN apart.                  *)
C3_Spaced ==
    executedSlices >= 2 => lastZombieKillTime - prevKillTime >= ZOMBIE_KILL_COOLDOWN

C3_Served(r) ==
    (ValidFresh(r) /\ executedSlices >= 1) =>
        /\ now - lastZombieKillTime < ZOMBIE_KILL_COOLDOWN => NoSlice
        /\ now - lastZombieKillTime > ZOMBIE_KILL_COOLDOWN => Executes

C3_Cooldown ==
    /\ []C3_Spaced
    /\ [][MouseServes(C3_Served) /\ HandServes(C3_Served)]_vars

(* two different targets sliced, with a rejected attempt between the slices *)
C3_Witness ==
    /\ executedSlices = 2
    /\ Len(piecesCreated) = 2 /\ piecesCreated[1] = 2 /\ piecesCreated[2] = 2
    /\ prevKillTime < rejectedAt /\ rejectedAt < lastZombieKillTime

(* C4: lastZombieKillTime changes only in a step that executes a slice, a    *)
(* request rejected by the cooldown leaves it alone, and after such a        *)
(* rejection a valid request ZOMBIE_KILL_COOLDOWN or more after the last     *)
(* executed slice still executes.                                            *)
C4_Served(r) ==
    (ValidFresh(r) /\ rejectedAt # NoTime /\ rejectedAt >= lastZombieKillTime
     /\ now - lastZombieKillTime >= ZOMBIE_KILL_COOLDOWN) => Executes

C4_Step ==
    /\ lastZombieKillTime' # lastZombieKillTime =>
           Executes /\ lastZombieKillTime' = now
    /\ (NoSlice /\ rejectedAt' = now) => lastZombieKillTime' = lastZombieKillTime
    /\ MouseServes(C4_Served)
    /\ HandServes(C4_Served)

C4_RejectionKeepsCooldown == [][C4_Step]_vars

(* a slice, an attempt rejected 0.125 s later, a slice 0.25 s after the first *)
C4_Witness ==
    /\ executedSlices = 2
    /\ rejectedAt = prevKillTime + 125
    /\ lastZombieKillTime = prevKillTime + 250

(* C5: a step that executes a slice leaves its target out of activeZombies   *)
(* and appends exactly two pieces of it, the first with sideToKeep +1 and    *)
(* the second with -1, both airborne with despawn timer 0; and the hit test  *)
(* never returns a zombie that was sliced.                                   *)
C5_NeverStruck ==
    \A p \in AllPoints :
        LET o == getUVCoordsFromNDC(p).object
        IN  o # Null => piecesCreated[o] = 0

C5_Step ==
    Executes =>
        \E z \in 1..Len(zombies) :
            LET n == Len(slicedPieces)
            IN  /\ piecesCreated'[z] = piecesCreated[z] + 2
                /\ \A i \in 1..Len(activeZombies') : activeZombies'[i] # z
                /\ Len(slicedPieces') = n + 2
                /\ SubSeq(slicedPieces', 1, n) = slicedPieces
                /\ slicedPieces'[n + 1].parent = z
                /\ slicedPieces'[n + 2].parent = z
                /\ slicedPieces'[n + 1].sideToKeep = 1
                /\ slicedPieces'[n + 2].sideToKeep = 0 - 1
                /\ \A k \in {n + 1, n + 2} :
                       /\ ~slicedPieces'[k].isOnFloor
                       /\ slicedPieces'[k].despawnTimer = 0

C5_SliceRetiresTarget == []C5_NeverStruck /\ [][C5_Step]_vars

(* one zombie sliced into its two pieces while the hit test strikes another *)
C5_Witness ==
    /\ executedSlices = 1
    /\ Len(slicedPieces) = 2
    /\ piecesCreated[slicedPieces[1].parent] = 2
    /\ getUVCoordsFromNDC(PLow).object # Null

(* C6: the score is ScorePerSlice times the number of executed slices.       *)
C6_Score == score = ScorePerSlice * executedSlices

C6_Witness == score = 2 * ScorePerSlice /\ Len(slicedPieces) = 4

(* C7: a rejected request (no target, a target already sliced, the cooldown, *)
(* or no valid line) changes nothing: no piece, no particle, no score, no    *)
(* cooldown restart, the target still in place.                              *)
C7_Rejected(r) ==
    \/ r.target = Null
    \/ piecesCreated[r.target] > 0
    \/ InCooldown(now, lastZombieKillTime)
    \/ r.line = NoUV

C7_Served(r) == C7_Rejected(r) => UNCHANGED << zombies, coreVars >>

C7_RejectedIsNoOp == [][MouseServes(C7_Served) /\ HandServes(C7_Served)]_vars

(* C8: dispose() is never called on the shared geometry: not by a slice, not *)
(* by the removal of a zombie that reached the near plane, not by the        *)
(* despawn of a piece.                                                       *)
C8_GeometryNeverDisposed == disposedGeometries = {}

(* C9: while the webcam is disabled no fingertip point is remembered.        *)
C9_DisabledForgetsFingerTip == ~webcamRunning => previousFingerTipNDC = NoNDC

(* C10: a step that executes a slice ends a gesture whose start point lay   *)
(* on the sliced zombie: the mouse target is an active zombie that the      *)
(* mousedown point lies on, the hand target one that the previous fingertip *)
(* lies on.                                                                  *)
LiesOn(p, z) == p # NoNDC /\ IsActive(z) /\ InLane(p, zombies[z].lane)

C10_MouseDownTarget ==
    ((zombieToSlice' # zombieToSlice \/ sliceStartNDC' # sliceStartNDC)
     /\ zombieToSlice' # Null) =>
        /\ LiesOn(sliceStartNDC', zombieToSlice')
        /\ isSlicing' /\ sliceStartValid'

C10_Step ==
    /\ C10_MouseDownTarget
    /\ isSlicing' => zombieToSlice' # Null
    /\ Executes =>
         \E z \in 1..Len(zombies) :
            /\ piecesCreated'[z] = piecesCreated[z] + 2
            /\ \/ /\ isSlicing /\ ~isSlicing' /\ zombieToSlice = z /\ sliceStartValid
                  /\ InLane(sliceStartNDC, zombies[z].lane)
               \/ /\ UNCHANGED mouseVars
                  /\ LiesOn(previousFingerTipNDC, z)

C10_StartStrikesTarget == [][C10_Step]_vars

(* past the cooldown with a zombie in reach, a mouse gesture and a hand     *)
(* gesture that both started off the zombie, and still no slice             *)
C10_Witness ==
    /\ now >= ZOMBIE_KILL_COOLDOWN
    /\ getUVCoordsFromNDC(PLow).object # Null
    /\ sliceStartNDC = POff /\ ~isSlicing /\ ~sliceStartValid
    /\ webcamRunning /\ predictLoops > 0 /\ previousFingerTipNDC = PLow
    /\ executedSlices = 0

(* C11: when the start point struck the target and the end point missed it  *)
(* (or struck another zombie), a line handed on by either resolver keeps    *)
(* startUV and ends where the ray from startUV along the texture-space drag *)
(* direction leaves the unit square; for startUV (0.3, 0.3) and a drag to   *)
(* the right the end point is (1.0, 0.3).                                   *)
OnBoundary(p) ==
    \/ p[1] \in {0, UVOne} /\ 0 <= p[2] /\ p[2] <= UVOne
    \/ p[2] \in {0, UVOne} /\ 0 <= p[1] /\ p[1] <= UVOne

Cross(a, b) == a[1] * b[2] - a[2] * b[1]
Dot(a, b) == a[1] * b[1] + a[2] * b[2]
Minus(a, b) == << a[1] - b[1], a[2] - b[2] >>

ExitsAlong(line, startUV, d) ==
    /\ line[1] = startUV
    /\ OnBoundary(line[2])
    /\ Abs(Cross(Minus(line[2], startUV), d)) < 2 * DirOne
    /\ Dot(Minus(line[2], startUV), d) > 0

C11_EndMissed(line) ==
    /\ line # NoUV =>
          ExitsAlong(line, probe.startUV,
                     DirectionUVApprox(DirectionNDC(probe.startNDC, probe.endNDC)))
    /\ (probe.startUV = << 30000, 30000 >> /\ probe.endNDC = << NDCOne, 0 >>) =>
          line = << << 30000, 30000 >>, << UVOne, 30000 >> >>

C11_ExtendsToExit ==
    (probe.applied /\ probe.endHit = NoUV) =>
        C11_EndMissed(probe.mouse) /\ C11_EndMissed(probe.hand)

C11_Witness ==
    /\ probe.applied
    /\ probe.endHit = NoUV
    /\ probe.startUV = << 30000, 30000 >>
    /\ probe.endNDC = << NDCOne, 0 >>
    /\ probe.mouse # NoUV
    /\ probe.mouse[2] = << UVOne, 30000 >>
    /\ probe.hand = probe.mouse

(* C12: every line a resolver hands to performSlice has both endpoints in   *)
(* [0,1]x[0,1] and a distance between them above the minimum; a resolved    *)
(* pair at less than the minimum is rejected.  The code rejects a distance  *)
(* below 0.001, so the minimum itself is handed on: C12_AtLeastMinimum is   *)
(* the property with "at least 0.001", C12_ExceedsMinimum the one with      *)
(* "exceeds 0.001".                                                         *)
InUnitSquare(p) == 0 <= p[1] /\ p[1] <= UVOne /\ 0 <= p[2] /\ p[2] <= UVOne

ApartBy(a, b, least) ==
    \/ Abs(a[1] - b[1]) >= least
    \/ Abs(a[2] - b[2]) >= least
    \/ (a[1] - b[1]) * (a[1] - b[1]) + (a[2] - b[2]) * (a[2] - b[2]) >= least * least

ApartByMoreThan(a, b, least) ==
    \/ Abs(a[1] - b[1]) > least
    \/ Abs(a[2] - b[2]) > least
    \/ (a[1] - b[1]) * (a[1] - b[1]) + (a[2] - b[2]) * (a[2] - b[2]) > least * least

C12_HandedOn(line) ==
    /\ line # NoUV =>
          /\ InUnitSquare(line[1]) /\ InUnitSquare(line[2])
          /\ ApartBy(line[1], line[2], MinSliceUVDistance)
    /\ (probe.endHit # NoUV
          /\ ~ApartBy(probe.startUV, probe.endHit, MinSliceUVDistance)) =>
          line = NoUV

C12_AtLeastMinimum ==
    probe.applied => C12_HandedOn(probe.mouse) /\ C12_HandedOn(probe.hand)

C12_Exceeds(line) ==
    /\ line # NoUV =>
          /\ InUnitSquare(line[1]) /\ InUnitSquare(line[2])
          /\ ApartByMoreThan(line[1], line[2], MinSliceUVDistance)
    /\ (probe.endHit # NoUV
          /\ ~ApartByMoreThan(probe.startUV, probe.endHit, MinSliceUVDistance)) =>
          line = NoUV

C12_ExceedsMinimum ==
    probe.applied => C12_Exceeds(probe.mouse) /\ C12_Exceeds(probe.hand)

C12_Witness ==
    /\ probe.applied
    /\ probe.startUV = << 30000, 30000 >>
    /\ probe.endHit = << 30000, 30100 >>
    /\ probe.mouse = << probe.startUV, probe.endHit >>
    /\ probe.hand = probe.mouse

(* C13: for every start point strictly inside the unit square and every    *)
(* non-zero direction, intersectUVSquare returns a point, never null, that  *)
(* lies on the border of the square and is reached at a non-negative        *)
(* parameter along the direction.  The function takes a component below     *)
(* 1e-6 for zero: C13_ExitFromInside is the property for the directions     *)
(* whose components are 0 or at least 1e-6, C13_EveryDirection the one for  *)
(* every non-zero direction.                                                *)
StrictlyInside(p) == 0 < p[1] /\ p[1] < UVOne /\ 0 < p[2] /\ p[2] < UVOne

AtLeastEps(c, one) == Abs(c) * EpsInv >= one

Distinguishable(d, one) ==
    /\ d # << 0, 0 >>
    /\ \A k \in 1..2 : d[k] = 0 \/ AtLeastEps(d[k], one)

ExitReached(out, startPoint, d) ==
    /\ out # NoUV
    /\ OnBoundary(out)
    /\ Abs(Cross(Minus(out, startPoint), d)) <= Abs(d[1]) + Abs(d[2])
    /\ Dot(Minus(out, startPoint), d) >= 0

Tenth(v) == << Div(v[1], 10), Div(v[2], 10) >>

OnTheLine(p, a, b) == Cross(Tenth(Minus(p, a)), Tenth(Minus(b, a))) = 0

C14_ExactlyOneHalf ==
    (/\ probe.applied
     /\ ApartBy(probe.uSliceStart, probe.uSliceEnd, MinSliceUVDistance)
     /\ ~OnTheLine(probe.vUv, probe.uSliceStart, probe.uSliceEnd)) =>
        probe.kept[1] # probe.kept[0 - 1]

C14_Witness ==
    /\ probe.applied
    /\ probe.uSliceStart = << 80000, 10000 >>
    /\ probe.uSliceEnd = << 20000, 90000 >>
    /\ probe.vUv = << 30000, 70000 >>
    /\ probe.kept[1]
    /\ ~probe.kept[0 - 1]

(* C15: the normal n = (-d.y, d.x), d = normalize(endUV - startUV), that    *)
(* separates the pieces of a slice is the normal of the visibility test:    *)
(* the piece with sideToKeep = +1 is offset and thrown along +n, the piece  *)
(* with sideToKeep = -1 along -n, the two velocities are exact negatives,   *)
(* and so each piece is pushed to the side it keeps.  For the cut from      *)
(* (0.2, 0.5) to (0.8, 0.5) the normal is (0, 1) and the pieces keep the    *)
(* upper and the lower half.                                                *)
Opposite(v) == << 0 - v[1], 0 - v[2] >>

C15_AlongShaderNormal(s) ==
    LET n == ShaderNormal(probe.uSliceStart, probe.uSliceEnd)
    IN  /\ probe.velocity[s] =
              << s * Div(n[1] * 20 * ShaderScale, DirOne),
                 s * Div(n[2] * 20 * ShaderScale, DirOne) >>
        /\ probe.separation[s] =
              << s * Div(n[1] * 50 * ShaderScale, DirOne),
                 s * Div(n[2] * 50 * ShaderScale, DirOne) >>
        /\ s * Dot(probe.velocity[s], n) > 0
        /\ s * Dot(probe.separation[s], n) > 0

C15_Example ==
    (probe.uSliceStart = << 20000, 50000 >> /\ probe.uSliceEnd = << 80000, 50000 >>) =>
        /\ probe.velocity[1] = << 0, 20 * ShaderScale >>
        /\ probe.kept[1] = (probe.vUv[2] >= 50000)
        /\ probe.kept[0 - 1] = (probe.vUv[2] <= 50000)

C15_PushedToKeptSide ==
    probe.applied =>
        /\ \A s \in Sides : C15_AlongShaderNormal(s)
        /\ probe.velocity[0 - 1] = Opposite(probe.velocity[1])
        /\ probe.separation[0 - 1] = Opposite(probe.separation[1])
        /\ C15_Example

C15_Witness ==
    /\ probe.applied
    /\ probe.uSliceStart = << 20000, 50000 >>
    /\ probe.uSliceEnd = << 80000, 50000 >>
    /\ probe.vUv = << 30000, 70000 >>
    /\ probe.velocity[1] = << 0, 20 * ShaderScale >>
    /\ probe.velocity[0 - 1] = << 0, 0 - 20 * ShaderScale >>
    /\ probe.kept[1] /\ ~probe.kept[0 - 1]

LiveAfter == { k \in 1..Len(bloodParticlePool') : bloodParticlePool'[k].visible }

FreeSlots == Len(bloodParticlePool) - Cardinality(LiveParticles)

C17_Step ==
    /\ Executes =>
          /\ Len(bloodParticlePool') = Len(bloodParticlePool)
          /\ Cardinality(LiveAfter) - Cardinality(LiveParticles) =
                IF bloodTexturesLoaded THEN Min(numBloodParticles, FreeSlots) ELSE 0
          /\ \A k \in LiveParticles : bloodParticlePool'[k] = bloodParticlePool[k]
          /\ Len(slicedPieces') = Len(slicedPieces) + 2
          /\ score' = score + ScorePerSlice
    /\ NoSlice => LiveAfter \subseteq LiveParticles

C17_ExhaustedPoolDropsTheRest == [][C17_Step]_vars

C17_Witness ==
    /\ executedSlices = 3
    /\ Len(bloodParticlePool) = MAX_BLOOD_PARTICLES
    /\ Cardinality(LiveParticles) = MAX_BLOOD_PARTICLES
    /\ Len(slicedPieces) = 6
    /\ score = 3 * ScorePerSlice

(* C18: an emission splits its numBloodParticles requests by index: the     *)
(* particle of request i is wall-bound exactly when i is below              *)
(* floor(numBloodParticles / 3) = 6 and floor-bound otherwise, so with at   *)
(* least numBloodParticles free slots 6 wall-bound and 12 floor-bound       *)
(* particles become active.                                                 *)
(* the slots an emission fills, in the order of their requests *)
Activated == LiveAfter \ LiveParticles

RequestIndex(k) == Cardinality({ j \in Activated : j < k })

C18_Step ==
    (Executes /\ bloodTexturesLoaded) =>
        /\ \A k \in Activated :
              bloodParticlePool'[k].isWallBlood = (RequestIndex(k) < 6)
        /\ FreeSlots >= numBloodParticles =>
              /\ Cardinality({ k \in Activated : bloodParticlePool'[k].isWallBlood })
                    = 6
              /\ Cardinality({ k \in Activated : ~bloodParticlePool'[k].isWallBlood })
                    = 12

C18_SplitByIndex == [][C18_Step]_vars

C18_Witness ==
    /\ executedSlices = 1
    /\ Cardinality({ k \in LiveParticles : bloodParticlePool[k].isWallBlood }) = 6
    /\ Cardinality({ k \in LiveParticles : ~bloodParticlePool[k].isWallBlood }) = 12

(* C19: every sliced piece and every blood particle goes through Airborne,  *)
(* Resting (at rest on the floor, or stuck to the wall) and Despawned only  *)
(* forwards: within one life a body at rest is never airborne again, a      *)
(* piece rests before it despawns, and a despawned body is not integrated   *)
(* again, nor is a despawned piece put back into slicedPieces.              *)
ParticleDespawned(pd) == ~pd.visible
ParticleResting(pd) == pd.visible /\ (pd.isOnFloor \/ pd.stuckToWall)
ParticleAirborne(pd) == pd.visible /\ ~pd.isOnFloor /\ ~pd.stuckToWall

C19_ParticleStep(k) ==
    LET pd == bloodParticlePool[k]
        next == bloodParticlePool'[k]
    IN  /\ ParticleResting(pd) => ~ParticleAirborne(next)
        /\ ParticleDespawned(pd) =>
              \/ next = pd
              \/ Executes /\ ParticleAirborne(next)

PieceIds == { slicedPieces[i].id : i \in 1..Len(slicedPieces) }

C19_PieceStep ==
    /\ \A i \in 1..Len(slicedPieces) :
          LET after == { j \in 1..Len(slicedPieces') :
                           slicedPieces'[j].id = slicedPieces[i].id }
          IN  /\ Cardinality(after) <= 1
              /\ slicedPieces[i].isOnFloor =>
                    \A j \in after : slicedPieces'[j].isOnFloor
              /\ ~slicedPieces[i].isOnFloor => after # {}
              /\ (/\ slicedPieces[i].isOnFloor
                  /\ now' > now
                  /\ slicedPieces[i].despawnTimer + (now' - now) >= DESPAWN_TIME) =>
                    after = {}
    /\ \A j \in 1..Len(slicedPieces') :
          slicedPieces'[j].id \notin PieceIds =>
              /\ slicedPieces'[j].id > 2 * executedSlices
              /\ ~slicedPieces'[j].isOnFloor

C19_Step ==
    /\ C19_PieceStep
    /\ Len(bloodParticlePool') >= Len(bloodParticlePool)
    /\ \A k \in 1..Len(bloodParticlePool) : C19_ParticleStep(k)

C19_NoDespawnedPieceListed ==
    \A i \in 1..Len(slicedPieces) :
        /\ slicedPieces[i].despawnTimer < DESPAWN_TIME
        /\ slicedPieces[i].id <= 2 * executedSlices

C19_OnlyForwards == []C19_NoDespawnedPieceListed /\ [][C19_Step]_vars

C19_Witness ==
    /\ executedSlices = 1
    /\ slicedPieces = << >>
    /\ LiveParticles = {}

(* C20: under render ticks that keep coming with positive elapsed time,     *)
(* every sliced piece eventually reaches the floor and rests, and is then   *)
(* removed from slicedPieces: the array keeps no piece forever.             *)
FallPieceIds == 1..(2 * (FallSliceBy \div ZOMBIE_KILL_COOLDOWN + 1))

Listed(id) == \E i \in 1..Len(slicedPieces) : slicedPieces[i].id = id

AtRest(id) ==
    \E i \in 1..Len(slicedPieces) :
        slicedPieces[i].id = id /\ slicedPieces[i].isOnFloor

C20_EveryPieceIsRemoved ==
    \A id \in FallPieceIds :
        /\ Listed(id) ~> AtRest(id)
        /\ AtRest(id) ~> ~Listed(id)

C20_Witness ==
    /\ executedSlices >= 1
    /\ slicedPieces = << >>
    /\ now < FallMaxNow

(* C21: in every reachable state 0 <= lives <= 3 and gameOver holds exactly  *)
(* when lives = 0; a step removes from activeZombies every zombie it brings *)
(* to the near plane (z >= ZOMBIE_END_Z) and lowers lives by one for each   *)
(* of them that arrives while the game is not over; once gameOver holds it  *)
(* holds for ever and lives no longer changes.                              *)
ArrivedBy == { i \in 1..Len(activeZombies) :
                  zombies'[activeZombies[i]].z >= ZOMBIE_END_Z }

C21_LivesAndGameOver ==
    /\ lives \in 0..3
    /\ gameOver <=> lives = 0
    /\ \A i \in 1..Len(activeZombies) : zombies[activeZombies[i]].z < ZOMBIE_END_Z

C21_Step ==
    /\ \A i \in ArrivedBy :
          \A j \in 1..Len(activeZombies') : activeZombies'[j] # activeZombies[i]
    /\ lives' = Max(lives - Cardinality(ArrivedBy), 0)
    /\ gameOver => gameOver' /\ lives' = lives

C21_LivesLostAtNearPlane == []C21_LivesAndGameOver /\ [][C21_Step]_vars

C21_Witness ==
    /\ gameOver
    /\ lives = 0
    /\ activeZombies = << >>
    /\ Len(zombies) = SiegeMaxZombies
    /\ \A z \in 1..Len(zombies) : zombies[z].z >= ZOMBIE_END_Z

(* C22: a render tick advances every sliced piece that is listed when the   *)
(* tick starts, and every live blood particle, exactly once: what is listed *)
(* afterwards is, in the same order, one step of every piece that the step  *)
(* did not despawn, also when the sweep removes pieces on its way.          *)
Survives(r) == ~r.despawn

AdvancedOnce(pieces, deltaTime) ==
    LET stepped == [i \in 1..Len(pieces) |-> StepPiece(pieces[i], deltaTime)]
        kept == SelectSeq(stepped, Survives)
    IN  [j \in 1..Len(kept) |-> kept[j].piece]

C22_Step ==
    now' > now =>
        /\ slicedPieces' = AdvancedOnce(slicedPieces, now' - now)
        /\ Len(bloodParticlePool') = Len(bloodParticlePool)
        /\ \A k \in LiveParticles :
              bloodParticlePool'[k] = StepParticle(bloodParticlePool[k], now' - now)
        /\ \A k \in 1..Len(bloodParticlePool) :
              k \notin LiveParticles => bloodParticlePool'[k] = bloodParticlePool[k]

C22_EveryBodyAdvancedOnce == [][C22_Step]_vars

C22_Witness ==
    /\ executedSlices = 1
    /\ Len(slicedPieces) = 1
    /\ slicedPieces[1].isOnFloor
    /\ slicedPieces[1].id = 2

(* C23: a sliced piece comes to rest on exactly the tick that brings its    *)
(* vertical position to FLOOR_Y or below; in every reachable state a       *)
(* resting piece has y = FLOOR_Y and vertical velocity 0, an airborne one  *)
(* is above FLOOR_Y, and a piece that has just come to rest has a despawn  *)
(* timer of 0.                                                             *)
C23_RestingOnFloor ==
    \A i \in 1..Len(slicedPieces) :
        IF slicedPieces[i].isOnFloor
        THEN slicedPieces[i].position[2] = FLOOR_Y /\ slicedPieces[i].velocity[2] = 0
        ELSE slicedPieces[i].position[2] > FLOOR_Y

C23_Step ==
    \A i \in 1..Len(slicedPieces), j \in 1..Len(slicedPieces') :
        (slicedPieces'[j].id = slicedPieces[i].id /\ ~slicedPieces[i].isOnFloor) =>
            LET y == slicedPieces[i].position[2] + slicedPieces[i].velocity[2]
            IN  IF now' > now /\ y <= FLOOR_Y
                THEN /\ slicedPieces'[j].isOnFloor
                     /\ slicedPieces'[j].despawnTimer = 0
                ELSE ~slicedPieces'[j].isOnFloor

C23_RestsWhenFloorReached == []C23_RestingOnFloor /\ [][C23_Step]_vars

C23_Witness ==
    \E i \in 1..Len(slicedPieces) :
        /\ slicedPieces[i].isOnFloor
        /\ slicedPieces[i].despawnTimer = 0
        /\ slicedPieces[i].position[2] = FLOOR_Y

(* C24: a resting piece is removed by the first tick that brings the time  *)
(* accumulated since it came to rest to DESPAWN_TIME (10 s), and by no     *)
(* earlier step; the timer is 0 as long as the piece is airborne and when  *)
(* it lands, and grows by the elapsed time of every tick spent resting.    *)
C24_TimerBelowDespawnTime ==
    \A i \in 1..Len(slicedPieces) :
        /\ slicedPieces[i].despawnTimer < DESPAWN_TIME
        /\ ~slicedPieces[i].isOnFloor => slicedPieces[i].despawnTimer = 0

C24_Step ==
    \A i \in 1..Len(slicedPieces) :
        LET piece == slicedPieces[i]
            after == { j \in 1..Len(slicedPieces') : slicedPieces'[j].id = piece.id }
            timer == piece.despawnTimer + (now' - now)
        IN  IF piece.isOnFloor /\ timer >= DESPAWN_TIME
            THEN after = {}
            ELSE /\ after # {}
                 /\ \A j \in after :
                       slicedPieces'[j].despawnTimer =
                           IF piece.isOnFloor THEN timer ELSE 0

C24_RemovedAfterTenSeconds == []C24_TimerBelowDespawnTime /\ [][C24_Step]_vars

C24_Witness ==
    /\ executedSlices >= 1
    /\ Len(slicedPieces) < 2 * executedSlices
    /\ \E i \in 1..Len(slicedPieces) :
          /\ slicedPieces[i].isOnFloor
          /\ slicedPieces[i].despawnTimer > 0

(* C25: on every tick that a piece spends resting, its horizontal velocity *)
(* and its rotation speed become 0.95 of what they were, or exactly 0 when *)
(* that product is below 0.001 in magnitude; their magnitudes never grow,  *)
(* no other step changes them, and a value that is 0 stays 0 for as long   *)
(* as the piece is listed.                                                 *)
DampedFrom(before, after) ==
    /\ Abs(after) <= Abs(before)
    /\ before = 0 => after = 0
    /\ IF after = 0
       THEN Abs(95 * before) < 100 * 1000 + 100
       ELSE Abs(after) >= 1000 /\ Abs(100 * after - 95 * before) < 100

C25_Step ==
    \A i \in 1..Len(slicedPieces), j \in 1..Len(slicedPieces') :
        (slicedPieces'[j].id = slicedPieces[i].id /\ slicedPieces[i].isOnFloor) =>
            IF now' > now
            THEN /\ DampedFrom(slicedPieces[i].velocity[1], slicedPieces'[j].velocity[1])
                 /\ DampedFrom(slicedPieces[i].rotation, slicedPieces'[j].rotation)
            ELSE /\ slicedPieces'[j].velocity[1] = slicedPieces[i].velocity[1]
                 /\ slicedPieces'[j].rotation = slicedPieces[i].rotation

C25_DampedToRest == [][C25_Step]_vars

C25_Witness ==
    \E i \in 1..Len(slicedPieces) :
        /\ slicedPieces[i].isOnFloor
        /\ slicedPieces[i].despawnTimer > 0
        /\ slicedPieces[i].velocity[1] = 0
        /\ slicedPieces[i].rotation = 0

(* C26: under render ticks that keep coming with positive elapsed time,    *)
(* every blood particle that is active becomes inactive again, which is    *)
(* what makes its slot one that a later emission can take: no slot stays   *)
(* occupied for ever, whether its particle expires in flight, rests as a   *)
(* puddle or sticks to the wall.                                           *)
(* Emissions end with the last slice, so every slot is freed once no slot   *)
(* is taken.                                                               *)
SlotTaken(k) == k <= Len(bloodParticlePool) /\ bloodParticlePool[k].visible

C26_EverySlotIsFreedAgain ==
    (\E k \in 1..(2 * MAX_BLOOD_PARTICLES) : SlotTaken(k))
        ~> (\A k \in 1..(2 * MAX_BLOOD_PARTICLES) : ~SlotTaken(k))

C26_Witness ==
    /\ executedSlices = 1
    /\ LiveParticles = {}
    /\ \A k \in 1..numBloodParticles : bloodParticlePool[k].lifetime # 0

(* the three ways of a particle are all taken *)
C26_Puddle ==
    \E k \in LiveParticles :
        ~bloodParticlePool[k].isWallBlood /\ bloodParticlePool[k].isOnFloor

C26_Stuck ==
    \E k \in LiveParticles : bloodParticlePool[k].stuckToWall

C26_ExpiredInFlight ==
    \E k \in 1..Len(bloodParticlePool) :
        /\ ~bloodParticlePool[k].visible
        /\ bloodParticlePool[k].lifetime <= 0
        /\ bloodParticlePool[k].isWallBlood
        /\ bloodParticlePool[k].position[3] > ZOMBIE_START_Z

(* C27: a particle stuck to the wall stays active until its wall timer      *)
(* exceeds 4.5 s, a floor puddle until its despawn timer reaches 10 s, and  *)
(* neither is deactivated by anything else, a lifetime that has run out     *)
(* included; a stuck or resting particle has zero velocity.                 *)
Stuck(pd) == pd.visible /\ pd.isWallBlood /\ pd.stuckToWall
Puddle(pd) == pd.visible /\ ~pd.isWallBlood /\ pd.isOnFloor

C27_AtRestMeansStill ==
    \A k \in 1..Len(bloodParticlePool) :
        (Stuck(bloodParticlePool[k]) \/ Puddle(bloodParticlePool[k])) =>
            bloodParticlePool[k].velocity = << 0, 0, 0 >>

C27_Step ==
    \A k \in 1..Len(bloodParticlePool) :
        LET pd == bloodParticlePool[k]
            timer == pd.despawnTimer + (now' - now)
        IN  /\ Stuck(pd) =>
                  IF timer > 4500 THEN ~bloodParticlePool'[k].visible
                  ELSE Stuck(bloodParticlePool'[k])
            /\ Puddle(pd) =>
                  IF timer >= 10000 THEN ~bloodParticlePool'[k].visible
                  ELSE Puddle(bloodParticlePool'[k])

C27_HeldUntilTimerRunsOut == []C27_AtRestMeansStill /\ [][C27_Step]_vars

C27_Witness ==
    \E k \in 1..Len(bloodParticlePool) :
        /\ Stuck(bloodParticlePool[k])
        /\ bloodParticlePool[k].lifetime <= 0
        /\ bloodParticlePool[k].despawnTimer = 4500

(* C28: with sideToKeep = 0 the slicing logic keeps every sample point; for *)
(* a cut line whose endpoints are less than 0.0001 apart it drops every    *)
(* point when sideToKeep > 0 and keeps every point when sideToKeep < 0, so *)
(* that each point is still kept by exactly one of the two halves.         *)
C28_Degenerate == ~ApartBy(probe.uSliceStart, probe.uSliceEnd, 10)

C28_UncutAndDegenerate ==
    probe.applied =>
        /\ probe.kept[0]
        /\ C28_Degenerate =>
              /\ ~probe.kept[1]
              /\ probe.kept[0 - 1]

C28_Witness ==
    /\ probe.applied
    /\ probe.uSliceStart = << 30000, 30000 >>
    /\ probe.uSliceEnd = << 30006, 30007 >>
    /\ probe.vUv = << 70000, 10000 >>
    /\ probe.kept[0]
    /\ ~probe.kept[1]
    /\ probe.kept[0 - 1]

(* C29: for every start point in the closed unit square and every          *)
(* direction, intersectUVSquare returns null or a point of the closed unit *)
(* square reached at a parameter t with 1e-6 <= t <= 1e6; it returns null  *)
(* when the start is on the border and the direction points out of the     *)
(* square, and when both components of the direction are below 1e-6 in     *)
(* magnitude.  The function takes a component below 1e-6 for zero and does *)
(* not clip that axis: C29_NullOrInsideSquare is the property for the      *)
(* directions whose components are 0 or at least 1e-6, C29_EveryDirection  *)
(* the one for every direction.                                            *)
PointsOut(s, d) ==
    \E k \in 1..2 : (s[k] = 0 /\ d[k] < 0) \/ (s[k] = UVOne /\ d[k] > 0)

ParameterInRange(t, one) ==
    /\ t.inf = 0
    /\ t.n >= (t.c + 10 * one - 1) \div (10 * one)
    /\ (t.n + HugeRatio(one) - 1) \div HugeRatio(one) <= t.c

NullOrInside ==
    \/ probe.out = NoUV
    \/ InUnitSquare(probe.out) /\ ParameterInRange(probe.t, probe.one)

BothBelowEps(d, one) == \A k \in 1..2 : ~AtLeastEps(d[k], one)

C29_Contract ==
    /\ NullOrInside
    /\ PointsOut(probe.startPoint, probe.direction) => probe.out = NoUV
    /\ BothBelowEps(probe.direction, probe.one) => probe.out = NoUV

ZeroDrag == probe.applied /\ probe.startNDC = probe.endNDC

C31_Frame(sample) ==
    /\ (webcamRunning /\ ~gameOver /\ sample = NoHand) =>
          previousFingerTipNDC' = NoNDC
    /\ previousFingerTipNDC = NoNDC => NoSlice
    /\ Executes =>
          /\ sample # NoHand
          /\ previousFingerTipNDC' = sample
          /\ HandRequest(sample).target # Null
          /\ LiesOn(previousFingerTipNDC, HandRequest(sample).target)

C31_Step ==
    (now' = now /\ UNCHANGED mouseVars /\ predictLoops > 0) =>
        \A sample \in AllPoints \cup {NoHand}, rnd \in RandomDraws :
            HandFrame(sample, rnd) => C31_Frame(sample)

C31_NoGestureSpansAGap == [][C31_Step]_vars

C31_Witness ==
    /\ now >= ZOMBIE_KILL_COOLDOWN
    /\ getUVCoordsFromNDC(PLow).object # Null
    /\ webcamRunning /\ predictLoops > 0 /\ ~gameOver
    /\ previousFingerTipNDC = NoNDC
    /\ executedSlices = 1
    /\ ~isSlicing /\ sliceStartNDC = << 0, 0 >>

(* C32: while the spawner is stopped (spawnIntervalId is null before and   *)
(* after the step, so startZombieSpawner has not been called) no zombie is *)
(* added to activeZombies.                                                  *)
C32_Step ==
    (spawnIntervalId = Null /\ spawnIntervalId' = Null) =>
        /\ Len(zombies') = Len(zombies)
        /\ Len(activeZombies') <= Len(activeZombies)

C32_NoSpawnWhileStopped == [][C32_Step]_vars

(* C33: at most one spawn interval timer is pending, and it is the one      *)
(* recorded in spawnIntervalId.                                             *)
C33_OnlyTheRecordedTimer ==
    /\ Cardinality(timers) <= 1
    /\ \A id \in timers : id = spawnIntervalId

(* C34: no zombie both costs a life and is sliced.  A zombie is sliced when *)
(* pieces have been made of it; a zombie that is no longer in activeZombies *)
(* and has no pieces left it at the near plane.  Such a zombie gets no      *)
(* pieces afterwards, and a zombie with pieces is not in activeZombies, so  *)
(* it cannot reach the near plane.                                          *)
C34_LostAtNearPlane(z) == ~IsActive(z) /\ piecesCreated[z] = 0

C34_Step ==
    \A z \in 1..Len(zombies) :
        /\ C34_LostAtNearPlane(z) => piecesCreated'[z] = 0
        /\ piecesCreated[z] > 0 => ~IsActive(z)

C34_LifeOrSliceNeverBoth == [][C34_Step]_vars

(* C35: once gameOver is true no gesture, of the mouse or of the hand,      *)
(* executes a slice: a step between frames leaves the score, slicedPieces   *)
(* and activeZombies as they are.                                           *)
C35_Step ==
    (gameOver /\ now' = now) =>
        /\ score' = score
        /\ slicedPieces' = slicedPieces
        /\ activeZombies' = activeZombies

C35_NoSliceAfterGameOver == [][C35_Step]_vars

(* C36: while frames are rendered with positive elapsed time every spawned *)
(* zombie eventually leaves activeZombies, sliced or at the near plane, and *)
(* it leaves once: a zombie that has left is never in activeZombies again.  *)
(* Frames are rendered once the textures have arrived (Settled).            *)
C36_Spawned(z) == Settled /\ z <= Len(zombies)

C36_GoneForGood ==
    \A z \in 1..Len(zombies) : ~IsActive(z) => ~IsActive(z)'

C36_EveryZombieLeaves ==
    /\ [][C36_GoneForGood]_vars
    /\ \A z \in 1..WalkMaxZombies :
          (C36_Spawned(z) /\ IsActive(z)) ~> (C36_Spawned(z) /\ ~IsActive(z))

C36_Witness ==
    /\ Len(zombies) = WalkMaxZombies
    /\ activeZombies = << >>
    /\ \E z \in 1..Len(zombies) : piecesCreated[z] > 0
    /\ lives = 2

(* C37: whenever the webcam is disabled and no getUserMedia request is      *)
(* pending, the video element holds no stream.                              *)
C37_DisabledHoldsNoStream ==
    (~webcamRunning /\ camRequests = 0) => ~srcObject

(* C38: in the mouse gesture machine isSlicing implies that zombieToSlice   *)
(* is set and sliceStartValid is true, so the resolver is never entered     *)
(* with an invalid start; every mouseup resets isSlicing, sliceStartValid,  *)
(* sliceEndValid and zombieToSlice, and a release that follows no press     *)
(* requests no slice (one press-release pair, at most one request).         *)
C38_Pressed == isSlicing => (zombieToSlice # Null /\ sliceStartValid)

C38_Release ==
    \A p \in AllPoints, rnd \in RandomDraws :
        MouseUp(p, rnd) =>
            /\ ~isSlicing' /\ ~sliceStartValid' /\ ~sliceEndValid'
            /\ zombieToSlice' = Null
            /\ ~isSlicing => NoSlice
            /\ MouseRequest(p) # NoRequest => sliceStartValid

C38_MouseGestureMachine == []C38_Pressed /\ [][C38_Release]_vars

C38_Witness ==
    /\ executedSlices = 1
    /\ sliceStartNDC = PLow /\ sliceStartUV # << 0, 0 >>
    /\ ~isSlicing /\ ~sliceStartValid /\ zombieToSlice = Null
    /\ previousFingerTipNDC = NoNDC /\ ~webcamRunning

(* C39: a pool slot taken by an emission starts as a fresh airborne         *)
(* particle whatever its last life left in it: isOnFloor and stuckToWall    *)
(* false, despawnTimer 0, lifetime positive, and isWallBlood telling the    *)
(* new role (wall blood is the blood that flies towards the wall).          *)
C39_Taken(k) == ~bloodParticlePool[k].visible /\ bloodParticlePool'[k].visible

C39_Fresh(pd) ==
    /\ ~pd.isOnFloor /\ ~pd.stuckToWall
    /\ pd.despawnTimer = 0
    /\ pd.lifetime > 0
    /\ pd.isWallBlood <=> pd.velocity[3] < 0

C39_Step ==
    Len(bloodParticlePool') = Len(bloodParticlePool) =>
        \A k \in 1..Len(bloodParticlePool) :
            C39_Taken(k) => C39_Fresh(bloodParticlePool'[k])

C39_ReusedSlotStartsFresh == [][C39_Step]_vars

C39_Witness ==
    /\ executedSlices = 2
    /\ now >= ReuseLateFrom
    /\ \A k \in 1..numBloodParticles :
          bloodParticlePool[k].visible /\ C39_Fresh(bloodParticlePool[k])
    /\ \A k \in (numBloodParticles + 1)..Len(bloodParticlePool) :
          ~bloodParticlePool[k].visible

====
